---- MODULE Spec2Model ----
(***************************************************************************)
(* Calendar synchronization engine of alon-assistant (backend/cal).        *)
(*                                                                         *)
(* The model follows the Python sources:                                   *)
(*   cal/services/sync.py     OAuth sync passes (Google, Microsoft)        *)
(*   cal/services/webhook.py  inbound notifications                        *)
(*   cal/services/ics.py      subscription feed poller                     *)
(*   cal/oauth/router.py      OAuth state tokens and callbacks             *)
(*   cal/router.py            manual sync endpoint                         *)
(*                                                                         *)
(* The database is the committed state.  A SQLAlchemy session is created   *)
(* with autoflush=False (database.py:21): a query sees committed rows and  *)
(* the in-memory changes of rows already loaded, but not objects that were *)
(* only db.add()-ed.  All handlers are coroutines on one event loop, so    *)
(* code between two network awaits runs atomically; an action of the model *)
(* is one such stretch.  The Google client calls the blocking              *)
(* googleapiclient inside "async def" without awaiting, so a Google pass   *)
(* is a single action; the Microsoft client awaits httpx, so a Microsoft   *)
(* pass is split at its fetches.                                           *)
(*                                                                         *)
(* Specifications:                                                         *)
(*   Spec       the sync passes of one OAuth connection                    *)
(*   SpecTrig   the triggers of a pass: manual sync and webhooks           *)
(*   SpecIcs    the poller of one subscribed feed                          *)
(*   SpecOAuth  state tokens and callbacks of the OAuth handshake          *)
(***************************************************************************)
EXTENDS Integers, Sequences, FiniteSets, TLC

\* ------------------------------------------------------------------ bounds
MaxTime == 2           \* the clock of the feed poller runs 1..MaxTime
MaxBlocks == 2         \* VEVENT blocks in a fetched feed
MaxMinute == 20        \* the clock of the OAuth handshake runs 0..MaxMinute (minutes)
TickMinutes == 5       \* ... in steps of TickMinutes

\* ------------------------------------------------------- program constants
ExpiryMinutes == 15      \* timedelta(minutes=15) of an OAuthState
CleanupAgeMinutes == 60  \* timedelta(hours=1) of cleanup_expired_oauth_states

\* ------------------------------------------------------------- value sets
PidOrder == <<"e1", "e2">>           \* provider event ids, in listing order
Pids == {PidOrder[i] : i \in 1..Len(PidOrder)}
NoTok == "none"                      \* connection.sync_token is NULL
Tokens == {"t1", "t2"}               \* cursors the provider hands out
NoState == "none"                    \* client_state is NULL / not carried
Secret == "s1"                       \* secrets.token_urlsafe(32) of the subscription
ClientStates == {NoState, Secret, "s2"}
Procs == {"p1", "p2"}                \* concurrently running requests

\* a provider event as the adapters return it (the mapped fields other than
\* the status are not modelled):
\*   live      - GoogleEvent.status in {confirmed, tentative}; MicrosoftEvent
\*   cancelled - GoogleEvent.status = "cancelled"; MicrosoftEvent.is_cancelled
\*   removed   - MicrosoftEvent.is_removed (the @removed marker of a delta)
Kinds(path) ==
  IF path = "google" THEN {"live", "cancelled"} ELSE {"live", "cancelled", "removed"}

\* the list a logical fetch returns: the provider lists an event at most once
RECURSIVE Listing(_, _)
Listing(f, i) ==
  IF i > Len(PidOrder) THEN <<>>
  ELSE (IF f[PidOrder[i]] = "absent" THEN <<>>
        ELSE <<[id |-> PidOrder[i], kind |-> f[PidOrder[i]]]>>)
       \o Listing(f, i + 1)

GoogleBatches == {Listing(f, 1) : f \in [Pids -> Kinds("google") \cup {"absent"}]}
MicrosoftBatches == {Listing(f, 1) : f \in [Pids -> Kinds("microsoft") \cup {"absent"}]}
Batches(path) == IF path = "google" THEN GoogleBatches ELSE MicrosoftBatches

BatchIds(batch) == {batch[i].id : i \in 1..Len(batch)}

\* ------------------------------------------------------------------ state
VARIABLES
  provider,   \* CalendarConnection.provider of the connection
  events,     \* committed CalendarEvent rows: [Pids -> Seq(row)]
  conn,       \* committed CalendarConnection fields
  sub,        \* the WebhookSubscription row of the connection
  proc,       \* the requests suspended at a network await
  now,        \* datetime.utcnow()
  hist,       \* history: the last sync pass that ran to its end
  notif,      \* history: the last webhook notification handled
  poll,       \* history: the last pass of the feed poller
  oauth_states, \* the OAuthState rows
  callback,   \* the OAuth callbacks: exchanges begun, the last callback handled
  local,      \* committed CalendarEvent rows with provider_event_id = ""
  created,    \* how the last create_event request ended
  connections,  \* the CalendarConnection rows of the user by (provider, calendar_id)
  request,    \* the last request that connected calendars
  auth,       \* the tokens of the connection and the provider calls of its last pass
  subs, \* the WebhookSubscription rows and their connections
  job, \* the run of renew_webhook_subscriptions in progress, and its history
  rec, \* an event series, a display window and what the expander made of them
  free, \* the rows a free/busy query reads, its arguments and what it returned
  sched, \* the feed connections the scheduler polls, the run in progress, how the last job ended
  fetch, \* the requests of the sync pass in progress and of the last pass, and how it ended
  sess, \* a request whose passes share one database session: what is pending in it, how the pass ended
  passes, \* per subscription: whether its connection has had a sync pass, and with the webhook in which state
  oauth_sessions, \* _oauth_sessions: the pending calendar selections, by session id
  selection, \* the last calendar-select request and its answer
  feedlog, \* the content of the feed at the last poll that succeeded and the rows before that poll
  remote \* the calendar at the provider: its uncancelled events, the events changed since the stored cursor was handed out, and how far a disconnect and reconnect have come

vars == <<provider, events, conn, sub, proc, now, hist, notif, poll, oauth_states,
          callback, local, created, connections, request, auth, subs, job, rec, free, sched, fetch, sess, passes, oauth_sessions, selection, feedlog, remote>>

localVars == <<local, created>>
connVars == <<connections, request>>
authVars == <<auth>>
renewVars == <<subs, job>>
recVars == <<rec>>
freeVars == <<free>>
schedVars == <<sched>>
fetchVars == <<fetch>>
sessVars == <<sess>>
passVars == <<passes>>
selectVars == <<oauth_sessions, selection>>
feedVars == <<feedlog>>
remoteVars == <<remote>>
restVars == <<localVars, connVars, authVars, renewVars, recVars, freeVars, schedVars, fetchVars, sessVars, passVars, selectVars, feedVars, remoteVars>>
notLocal == <<connVars, authVars, renewVars, recVars, freeVars, schedVars, fetchVars, sessVars, passVars, selectVars, feedVars, remoteVars>>
notConn == <<localVars, authVars, renewVars, recVars, freeVars, schedVars, fetchVars, sessVars, passVars, selectVars, feedVars, remoteVars>>
notAuth == <<localVars, connVars, renewVars, recVars, freeVars, schedVars, fetchVars, sessVars, passVars, selectVars, feedVars, remoteVars>>
notRenew == <<localVars, connVars, authVars, recVars, freeVars, schedVars, fetchVars, sessVars, passVars, selectVars, feedVars, remoteVars>>
notRec == <<localVars, connVars, authVars, renewVars, freeVars, schedVars, fetchVars, sessVars, passVars, selectVars, feedVars, remoteVars>>
notFree == <<localVars, connVars, authVars, renewVars, recVars, schedVars, fetchVars, sessVars, passVars, selectVars, feedVars, remoteVars>>
notSched == <<localVars, connVars, authVars, renewVars, recVars, freeVars, fetchVars, sessVars, passVars, selectVars, feedVars, remoteVars>>
notFetch == <<localVars, connVars, authVars, renewVars, recVars, freeVars, schedVars, sessVars, passVars, selectVars, feedVars, remoteVars>>
notSess == <<localVars, connVars, authVars, renewVars, recVars, freeVars, schedVars, fetchVars, passVars, selectVars, feedVars, remoteVars>>
notPass == <<localVars, connVars, authVars, renewVars, recVars, freeVars, schedVars, fetchVars, sessVars, selectVars, feedVars, remoteVars>>
notSelect == <<localVars, connVars, authVars, renewVars, recVars, freeVars, schedVars, fetchVars, sessVars, passVars, feedVars, remoteVars>>
notFeed == <<localVars, connVars, authVars, renewVars, recVars, freeVars, schedVars, fetchVars, sessVars, passVars, selectVars, remoteVars>>
notRemote == <<localVars, connVars, authVars, renewVars, recVars, freeVars, schedVars, fetchVars, sessVars, passVars, selectVars, feedVars>>

oauthVars == <<oauth_states, callback>>
syncVars == <<sub, proc, hist, notif>>

\* CalendarEvent row as an upsert writes it; deleted stands for
\* "deleted_at IS NOT NULL"
SyncedRow ==
  [deleted |-> FALSE, sync_status |-> "SYNCED", status |-> "CONFIRMED"]

NoRows == [pid \in Pids |-> <<>>]

ZeroStats == [total_events |-> 0, new_events |-> 0, updated_events |-> 0, deleted_events |-> 0]

\* the session of one pass: rows loaded from the database with their pending
\* changes, the rows db.add()-ed, and the statistics
NewSession(rows) == [rows |-> rows, new |-> <<>>, stats |-> ZeroStats]

\* a lookup that filters on the wrong column and never finds the row
HasExisting_never(S, pid) == FALSE

\* db.query(CalendarEvent).filter(connection, provider_event_id).first():
\* pending inserts are invisible (autoflush=False)
HasExisting(S, pid) == S.rows[pid] # <<>>

SetExisting(S, pid, row) ==
  [S EXCEPT !.rows[pid] = <<row>> \o Tail(@)]

Count(S, result) ==
  [S EXCEPT !.stats.total_events = @ + 1,
            !.stats.new_events = @ + (IF result = "new" THEN 1 ELSE 0),
            !.stats.updated_events = @ + (IF result = "updated" THEN 1 ELSE 0),
            !.stats.deleted_events = @ + (IF result = "deleted" THEN 1 ELSE 0)]

\* an upsert that stores a cancelled event it has no row for
upsert_google_event_stores_cancelled(S, item) ==
  IF HasExisting(S, item.id)
  THEN IF item.kind = "cancelled"
       THEN Count(SetExisting(S, item.id,
                    [Head(S.rows[item.id]) EXCEPT !.deleted = TRUE,
                                                  !.sync_status = "DELETED"]),
                  "deleted")
       ELSE Count(SetExisting(S, item.id, SyncedRow), "updated")
  ELSE Count([S EXCEPT !.new = Append(@, [id |-> item.id, row |-> SyncedRow])],
             "new")

\* _upsert_google_event
upsert_google_event(S, item) ==
  IF item.kind = "cancelled"
  THEN IF HasExisting(S, item.id)
       THEN Count(SetExisting(S, item.id,
                    [Head(S.rows[item.id]) EXCEPT !.deleted = TRUE,
                                                  !.sync_status = "DELETED"]),
                  "deleted")
       ELSE Count(S, "deleted")
  ELSE IF HasExisting(S, item.id)
       THEN Count(SetExisting(S, item.id, SyncedRow), "updated")
       ELSE Count([S EXCEPT !.new = Append(@, [id |-> item.id, row |-> SyncedRow])],
                  "new")

\* _upsert_microsoft_event
upsert_microsoft_event(S, item) ==
  IF item.kind = "removed"
  THEN IF HasExisting(S, item.id)
       THEN Count(SetExisting(S, item.id,
                    [Head(S.rows[item.id]) EXCEPT !.deleted = TRUE,
                                                  !.sync_status = "DELETED"]),
                  "deleted")
       ELSE Count(S, "deleted")
  ELSE IF item.kind = "cancelled"
  THEN IF HasExisting(S, item.id)
       THEN Count(SetExisting(S, item.id,
                    [Head(S.rows[item.id]) EXCEPT !.status = "CANCELLED",
                                                  !.deleted = TRUE,
                                                  !.sync_status = "DELETED"]),
                  "deleted")
       ELSE Count(S, "deleted")
  ELSE IF HasExisting(S, item.id)
       THEN Count(SetExisting(S, item.id, SyncedRow), "updated")
       ELSE Count([S EXCEPT !.new = Append(@, [id |-> item.id, row |-> SyncedRow])],
                  "new")

RECURSIVE upsert_all(_, _, _)
upsert_all(path, S, batch) ==
  IF batch = <<>> THEN S
  ELSE upsert_all(path,
         IF path = "google" THEN upsert_google_event(S, Head(batch))
                            ELSE upsert_microsoft_event(S, Head(batch)),
         Tail(batch))

\* a loop that afterwards soft-deletes every row the batch did not mention,
\* whatever the mode of the pass
process_events_pruning(path, S, batch) ==
  LET T == upsert_all(path, S, batch)
  IN [T EXCEPT !.rows = [pid \in DOMAIN T.rows |->
        IF pid \in BatchIds(batch) \/ T.rows[pid] = <<>> THEN T.rows[pid]
        ELSE <<[Head(T.rows[pid]) EXCEPT !.deleted = TRUE, !.sync_status = "DELETED"]>>
               \o Tail(T.rows[pid])]]

\* "for google_event in events" / "for ms_event in events": the loop of a pass
RECURSIVE process_events(_, _, _)
process_events(path, S, batch) ==
  IF batch = <<>> THEN S
  ELSE process_events(path,
         IF path = "google" THEN upsert_google_event(S, Head(batch))
                            ELSE upsert_microsoft_event(S, Head(batch)),
         Tail(batch))

\* the rows of a session as the flush writes them: updates in place, inserts appended
RECURSIVE Flushed(_, _)
Flushed(rows, new) ==
  IF new = <<>> THEN rows
  ELSE Flushed([rows EXCEPT ![Head(new).id] = Append(@, Head(new).row)], Tail(new))

\* the table without its unique constraint
unique_constraint_dropped(rows) == TRUE

\* UniqueConstraint("calendar_connection_id", "provider_event_id")
unique_calendar_provider_event(rows) == \A pid \in DOMAIN rows : Len(rows[pid]) <= 1

\* ------------------------------------------------------ provider responses
\* what one logical fetch of the adapter gives back to the pass:
\*   ok      - (events, next cursor); the cursor may be missing
\*   invalid - HTTP 410: "Sync token expired, full sync required" /
\*             "INVALID_DELTA_TOKEN"; only a request that sent a cursor gets it
\*   error   - any other ValueError
\* A cursor the provider hands out differs from the one the request sent.
Failure(kind) == [kind |-> kind, batch |-> <<>>, next |-> NoTok]

OkResponses(path, sent) ==
  [kind : {"ok"}, batch : Batches(path), next : (Tokens \ {sent}) \cup {NoTok}]

Responses(path, sent) ==
  OkResponses(path, sent) \cup {Failure("error")}
    \cup (IF sent # NoTok THEN {Failure("invalid")} ELSE {})

\* the fallback request sends no cursor; the cursor just refused is not handed out again
FallbackResponses(path, refused) ==
  OkResponses(path, refused) \cup {Failure("error")}

\* "if force_full_sync or not connection.sync_token" / "delta_token = None if force_full_sync"
cursor_to_send(force_full_sync, sync_token) ==
  IF force_full_sync \/ sync_token = NoTok THEN NoTok ELSE sync_token

Idle == [pc |-> "idle", sent |-> NoTok]

\* ------------------------------------------------------------ a sync pass
PassMode(sent, fallback) ==
  IF sent = NoTok \/ fallback THEN "full" ELSE "incremental"

\* the history is kept only in behaviours that start with it switched on
Record(h) == IF hist.on THEN h ELSE hist

\* the pass applies to a full batch the batch of the full pass before it
Repeats(path, sent, fallback, batch) ==
  /\ PassMode(sent, fallback) = "full"
  /\ hist.mode = "full" /\ hist.ok /\ hist.applied
  /\ hist.path = path /\ hist.batch = batch

\* the fetch has raised: the pass ends, nothing is written
pass_raises(path, sent, fallback) ==
  /\ hist' = Record([on |-> TRUE, path |-> path, sent |-> sent, fallback |-> fallback,
                     mode |-> PassMode(sent, fallback), applied |-> FALSE,
                     batch |-> <<>>, gave |-> FALSE, ok |-> FALSE, repeat |-> FALSE])
  /\ UNCHANGED <<events, conn>>

\* sync.py 114-133 / 258-277: process the batch, store the cursor, commit
process_and_commit(path, sent, fallback, resp) ==
  LET S == process_events(path, NewSession(events), resp.batch)
      rows == Flushed(S.rows, S.new)
  IN IF unique_calendar_provider_event(rows)
     THEN /\ events' = rows
          /\ conn' = [conn EXCEPT !.sync_token = IF resp.next # NoTok THEN resp.next ELSE @,
                                  !.last_synced_at = now]
          /\ hist' = Record([on |-> TRUE, path |-> path, sent |-> sent,
                             fallback |-> fallback,
                             mode |-> PassMode(sent, fallback), applied |-> TRUE,
                             batch |-> resp.batch,
                             gave |-> resp.next # NoTok, ok |-> TRUE,
                             repeat |-> Repeats(path, sent, fallback, resp.batch)])
     ELSE \* IntegrityError at db.commit(): the transaction is not committed
          /\ hist' = Record([on |-> TRUE, path |-> path, sent |-> sent,
                             fallback |-> fallback,
                             mode |-> PassMode(sent, fallback), applied |-> TRUE,
                             batch |-> resp.batch,
                             gave |-> resp.next # NoTok, ok |-> FALSE,
                             repeat |-> Repeats(path, sent, fallback, resp.batch)])
          /\ UNCHANGED <<events, conn>>

\* sync_google_events: no await suspends it, the whole pass is one step
sync_google_events(force_full_sync) ==
  LET sent == cursor_to_send(force_full_sync, conn.sync_token)
  IN \E r1 \in Responses("google", sent) :
       \/ /\ r1.kind = "ok"
          /\ process_and_commit("google", sent, FALSE, r1)
       \/ /\ r1.kind = "invalid"
          /\ \E r2 \in FallbackResponses("google", sent) :
               IF r2.kind = "ok" THEN process_and_commit("google", sent, TRUE, r2)
                                 ELSE pass_raises("google", sent, TRUE)
       \/ /\ r1.kind = "error"
          /\ pass_raises("google", sent, FALSE)

\* sync_microsoft_events up to "await client.get_delta_events(...)"
sync_microsoft_events_start(p, force_full_sync) ==
  /\ proc[p].pc = "idle"
  /\ proc' = [proc EXCEPT ![p] = [pc |-> "fetch",
                                  sent |-> cursor_to_send(force_full_sync, conn.sync_token)]]

\* the first get_delta_events returns or raises
MsFetchReturn(p) ==
  /\ proc[p].pc = "fetch"
  /\ \E r \in IF provider = "microsoft" THEN Responses("microsoft", proc[p].sent)
                                        ELSE {Failure("error")} :
       \/ /\ r.kind = "ok"
          /\ process_and_commit("microsoft", proc[p].sent, FALSE, r)
          /\ proc' = [proc EXCEPT ![p] = Idle]
       \/ /\ r.kind = "invalid"
          /\ proc' = [proc EXCEPT ![p].pc = "fallback"]
          /\ UNCHANGED <<events, conn, hist>>
       \/ /\ r.kind = "error"
          /\ pass_raises("microsoft", proc[p].sent, FALSE)
          /\ proc' = [proc EXCEPT ![p] = Idle]
  /\ UNCHANGED <<provider, sub, now, notif>>
  /\ UNCHANGED <<poll, oauthVars>>
  /\ UNCHANGED restVars

\* the fallback get_delta_events(delta_token=None) returns or raises
MsFallbackReturn(p) ==
  /\ proc[p].pc = "fallback"
  /\ \E r \in FallbackResponses("microsoft", proc[p].sent) :
       IF r.kind = "ok" THEN process_and_commit("microsoft", proc[p].sent, TRUE, r)
                        ELSE pass_raises("microsoft", proc[p].sent, TRUE)
  /\ proc' = [proc EXCEPT ![p] = Idle]
  /\ UNCHANGED <<provider, sub, now, notif>>
  /\ UNCHANGED <<poll, oauthVars>>
  /\ UNCHANGED restVars

\* ---------------------------------------------------------------- triggers
\* router.sync_calendar -> sync_calendar_events(connection, db, force_full_sync)
\* on a Google connection
sync_calendar_google(force_full_sync) ==
  /\ provider = "google"
  /\ sync_google_events(force_full_sync)
  /\ UNCHANGED <<provider, sub, proc, now, notif>>
  /\ UNCHANGED <<poll, oauthVars>>
  /\ UNCHANGED restVars

\* router.sync_calendar -> sync_calendar_events(connection, db, force_full_sync)
\* on a Microsoft connection
sync_calendar_microsoft(p, force_full_sync) ==
  /\ provider = "microsoft"
  /\ sync_microsoft_events_start(p, force_full_sync)
  /\ UNCHANGED <<provider, events, conn, sub, now, hist, notif>>
  /\ UNCHANGED <<poll, oauthVars>>
  /\ UNCHANGED restVars

\* create_webhook_subscription: Microsoft stores a client_state secret, Google none
create_webhook_subscription ==
  /\ provider \in {"google", "microsoft"}
  /\ ~sub.exists
  /\ sub' = [exists |-> TRUE, is_active |-> TRUE,
             client_state |-> IF provider = "microsoft" THEN Secret ELSE NoState]
  /\ UNCHANGED <<provider, events, conn, proc, now, hist, notif>>
  /\ UNCHANGED <<poll, oauthVars>>
  /\ UNCHANGED restVars

Notice(n) == IF notif.on THEN n ELSE notif

\* handle_microsoft_webhook with one notification in the body;
\* known: the subscriptionId is the id of the stored subscription
handle_microsoft_webhook(p, known, client_state) ==
  /\ proc[p].pc = "idle"
  /\ LET found == known /\ sub.exists /\ sub.is_active
         rejected == found /\ sub.client_state # NoState /\ client_state # sub.client_state
         starts == found /\ ~rejected
     IN /\ notif' = Notice([on |-> TRUE, handler |-> "microsoft", found |-> found,
                            match |-> found /\ client_state = sub.client_state,
                            started |-> starts])
        /\ IF starts THEN sync_microsoft_events_start(p, FALSE) ELSE UNCHANGED proc
  /\ UNCHANGED <<provider, events, conn, sub, now, hist>>
  /\ UNCHANGED <<poll, oauthVars>>
  /\ UNCHANGED restVars

\* handle_google_webhook; token is the X-Goog-Channel-Token the request carries
handle_google_webhook(known, resource_state, token) ==
  /\ LET found == /\ resource_state # "sync"
                  /\ known /\ sub.exists /\ sub.is_active /\ provider = "google"
     IN /\ notif' = Notice([on |-> TRUE, handler |-> "google", found |-> found,
                            match |-> found /\ token = sub.client_state,
                            started |-> found])
        /\ IF found THEN sync_google_events(FALSE) ELSE UNCHANGED <<events, conn, hist>>
  /\ UNCHANGED <<provider, sub, proc, now>>
  /\ UNCHANGED <<poll, oauthVars>>
  /\ UNCHANGED restVars

\* ------------------------------------------------------------ feed poller
\* a VEVENT block of a fetched feed:
\*   event     - carries DTSTART and maps to a row
\*   nodtstart - carries no DTSTART (_upsert_ics_event returns "skipped")
\*   bad       - processing it raises (a DTSTART or DTEND value without .dt, ...)
\* Two blocks of a feed may carry the same UID (a series and its override).
\* Blocks with different UIDs touch different rows, so the feeds list the UIDs
\* in PidOrder; the blocks of one UID come in every order.
BlockKinds == {"event", "nodtstart", "bad"}
Blocks == [uid : Pids, kind : BlockKinds]
PidIndex(pid) == CHOOSE i \in 1..Len(PidOrder) : PidOrder[i] = pid
Feeds ==
  {f \in UNION {[1..n -> Blocks] : n \in 0..MaxBlocks} :
     \A i \in 1..(Len(f) - 1) : PidIndex(f[i].uid) <= PidIndex(f[i + 1].uid)}
FeedIds(feed) == {feed[i].uid : i \in 1..Len(feed)}
LastModifieds == {"m1"}

\* the ETag of changed content differs from the one stored
FreshTag(etag) == IF etag = "t1" THEN "t2" ELSE "t1"

\* the answers to the conditional GET; 304 answers only a request that sent
\* a validator
IcsResponses(c) ==
  LET Bare == [status |-> 500, parses |-> FALSE, feed |-> <<>>,
               etag |-> NoTok, last_modified |-> NoTok]
      Headers == [etag : {FreshTag(c.ics_etag), NoTok},
                  last_modified : LastModifieds \cup {NoTok}]
  IN {[status |-> 200, parses |-> TRUE, feed |-> f,
       etag |-> h.etag, last_modified |-> h.last_modified] : f \in Feeds, h \in Headers}
     \cup {[status |-> 200, parses |-> FALSE, feed |-> <<>>,
            etag |-> h.etag, last_modified |-> h.last_modified] : h \in Headers}
     \cup {Bare}
     \cup (IF c.ics_etag # NoTok \/ c.ics_last_modified # NoTok
           THEN {[Bare EXCEPT !.status = 304]} ELSE {})

\* the session of a feed pass: existing_events as loaded before the loop with
\* the pending changes, the rows db.add()-ed, seen_event_ids, the statistics
NewIcsSession(rows) ==
  [rows |-> rows, new |-> <<>>, seen |-> {}, stats |-> ZeroStats, raised |-> FALSE]

\* _upsert_ics_event(connection, component, event_id, existing_events.get(event_id), db)
upsert_ics_event(S, block) ==
  IF block.kind = "nodtstart" THEN S
  ELSE IF block.kind = "bad" THEN [S EXCEPT !.raised = TRUE]
  ELSE IF S.rows[block.uid] # <<>>
       THEN [S EXCEPT !.rows[block.uid] = <<SyncedRow>> \o Tail(@),
                      !.stats.updated_events = @ + 1]
       ELSE [S EXCEPT !.new = Append(@, [id |-> block.uid, row |-> SyncedRow]),
                      !.stats.new_events = @ + 1]

\* "for component in cal.walk()": the loop over the VEVENT blocks
RECURSIVE walk(_, _)
walk(S, feed) ==
  IF feed = <<>> \/ S.raised THEN S
  ELSE LET b == Head(feed)
           T == upsert_ics_event([S EXCEPT !.seen = @ \cup {b.uid}], b)
       IN walk(IF T.raised THEN T ELSE [T EXCEPT !.stats.total_events = @ + 1],
               Tail(feed))

\* "Mark missing events as deleted (only non-deleted ones)"
mark_missing(S) ==
  LET missing == {pid \in Pids : /\ S.rows[pid] # <<>>
                                 /\ pid \notin S.seen
                                 /\ ~Head(S.rows[pid]).deleted}
  IN [S EXCEPT !.rows = [pid \in Pids |->
                           IF pid \in missing
                           THEN <<[Head(S.rows[pid]) EXCEPT !.deleted = TRUE,
                                                            !.sync_status = "DELETED"]>>
                                  \o Tail(S.rows[pid])
                           ELSE S.rows[pid]],
                 !.stats.deleted_events = @ + Cardinality(missing)]

\* a failure handler that commits the pending changes instead of discarding them
rollback_keeping(committed, pending) == pending

\* "except Exception: db.rollback()": the pending changes are discarded
rollback(committed, pending) == committed

\* a 304 branch that returns without touching the connection
not_modified_untouched(c, t) == c

\* the 304 branch: connection.last_synced_at = datetime.utcnow()
not_modified(c, t) == [c EXCEPT !.last_synced_at = t]

NoPoll == [kind |-> "none", cause |-> "none", seen |-> {}, stats |-> ZeroStats]

\* the pass raises with the changes pending in the session
ics_raises(cause, rows, c) ==
  LET db == rollback([events |-> events, conn |-> conn], [events |-> rows, conn |-> c])
  IN /\ events' = db.events
     /\ conn' = db.conn
     /\ poll' = [NoPoll EXCEPT !.kind = "raised", !.cause = cause]

\* sync_ics_events from the arrival of the response to its return or raise
sync_ics_events ==
  /\ provider = "ics"
  /\ \E r \in IcsResponses(conn) :
       IF r.status = 304
       THEN /\ conn' = not_modified(conn, now)
            /\ events' = events
            /\ poll' = [NoPoll EXCEPT !.kind = "not_modified"]
       ELSE IF r.status # 200
       THEN ics_raises("http", events, conn)
       ELSE LET c1 == [conn EXCEPT !.ics_etag = r.etag,
                                   !.ics_last_modified = r.last_modified]
            IN IF ~r.parses
               THEN ics_raises("parse", events, c1)
               ELSE LET W == walk(NewIcsSession(events), r.feed)
                        S == mark_missing(W)
                        rows == Flushed(S.rows, S.new)
                    IN IF W.raised
                       THEN ics_raises("block", Flushed(W.rows, W.new), c1)
                       ELSE IF ~unique_calendar_provider_event(rows)
                       THEN ics_raises("integrity", rows, c1)
                       ELSE /\ events' = rows
                            /\ conn' = [c1 EXCEPT !.last_synced_at = now]
                            /\ poll' = [kind |-> "ok", cause |-> "none",
                                        seen |-> FeedIds(r.feed), stats |-> S.stats]
  /\ UNCHANGED <<provider, now, syncVars, oauthVars>>
  /\ UNCHANGED restVars

\* time passes between two polls
Tick ==
  /\ now < MaxTime
  /\ now' = now + 1
  /\ UNCHANGED <<provider, events, conn, poll, syncVars, oauthVars>>
  /\ UNCHANGED restVars

\* ------------------------------------------------------- OAuth state tokens
\* "st1" is the token secrets.token_urlsafe(32) hands out; "st0" is a token
\* the server never issued
StateToks == {"st0", "st1"}
Issuable == {"st1"}
NoErr == "none"                       \* the callback carries no error parameter
ProviderErrors == {"access_denied"}   \* what the provider reports when consent is denied

\* an OAuthState row; stored: the row is in the table
NoStateRow == [issued |-> FALSE, stored |-> FALSE, provider |-> "none",
               consumed |-> FALSE, created_at |-> 0, expires_at |-> 0]

NoCallback ==
  [seq |-> 0, exchanges |-> [t \in StateToks |-> 0], pending |-> 0,
   last |-> [handler |-> "none", code |-> FALSE, state |-> NoState, error |-> NoErr,
             outcome |-> "none"]]

\* initiate_google_oauth / initiate_microsoft_oauth: store a fresh state
initiate_oauth(prov, tok) ==
  /\ ~oauth_states[tok].issued
  /\ oauth_states' = [oauth_states EXCEPT ![tok] =
                        [issued |-> TRUE, stored |-> TRUE, provider |-> prov,
                         consumed |-> FALSE, created_at |-> now,
                         expires_at |-> now + ExpiryMinutes]]
  /\ UNCHANGED <<provider, events, conn, now, poll, syncVars, callback>>
  /\ UNCHANGED restVars

initiate_google_oauth(tok) == initiate_oauth("google", tok)

initiate_microsoft_oauth(tok) == initiate_oauth("microsoft", tok)

\* a validation that forgets the consumed flag
find_state_ignoring_consumed(handler, state, t) ==
  /\ state \in StateToks
  /\ oauth_states[state].stored
  /\ oauth_states[state].provider = handler
  /\ oauth_states[state].expires_at > t

\* db.query(OAuthState).filter(state, provider, consumed == False, expires_at > utcnow()).first()
find_state(handler, state, t) ==
  /\ state \in StateToks
  /\ oauth_states[state].stored
  /\ oauth_states[state].provider = handler
  /\ ~oauth_states[state].consumed
  /\ oauth_states[state].expires_at > t

\* handle_google_callback / handle_microsoft_callback up to "await client.get_tokens(code)";
\* code: the request carries a code
handle_callback(handler, code, state, error) ==
  LET outcome == IF error # NoErr THEN error
                 ELSE IF ~code \/ state = NoState THEN "missing_params"
                 ELSE IF ~find_state(handler, state, now) THEN "invalid_state"
                 ELSE "exchange"
  IN /\ oauth_states' = IF outcome = "exchange"
                        THEN [oauth_states EXCEPT ![state].consumed = TRUE]
                        ELSE oauth_states
     /\ callback' = [seq |-> 1 - callback.seq,
                     exchanges |-> IF outcome = "exchange"
                                   THEN [callback.exchanges EXCEPT
                                           ![state] = IF @ < 2 THEN @ + 1 ELSE @]
                                   ELSE callback.exchanges,
                     pending |-> IF outcome = "exchange" /\ callback.pending < 2
                                 THEN callback.pending + 1 ELSE callback.pending,
                     last |-> [handler |-> handler, code |-> code, state |-> state,
                               error |-> error, outcome |-> outcome]]
     /\ UNCHANGED <<provider, events, conn, now, poll, syncVars>>
     /\ UNCHANGED restVars

handle_google_callback(code, state, error) == handle_callback("google", code, state, error)

handle_microsoft_callback(code, state, error) ==
  handle_callback("microsoft", code, state, error)

\* get_tokens returns or raises: the callback redirects with the session or
\* with auth_failed
get_tokens_return ==
  /\ callback.pending > 0
  /\ callback' = [callback EXCEPT !.pending = @ - 1]
  /\ UNCHANGED <<provider, events, conn, now, poll, syncVars, oauth_states>>
  /\ UNCHANGED restVars

\* jobs.cleanup_expired_oauth_states
cleanup_expired_oauth_states ==
  /\ oauth_states' = [t \in StateToks |->
       IF /\ oauth_states[t].stored
          /\ \/ oauth_states[t].expires_at < now
             \/ /\ oauth_states[t].consumed
                /\ oauth_states[t].created_at < now - CleanupAgeMinutes
       THEN [oauth_states[t] EXCEPT !.stored = FALSE]
       ELSE oauth_states[t]]
  /\ UNCHANGED <<provider, events, conn, now, poll, syncVars, callback>>
  /\ UNCHANGED restVars

\* time passes during the handshake
Minutes ==
  /\ now + TickMinutes <= MaxMinute
  /\ now' = now + TickMinutes
  /\ UNCHANGED <<provider, events, conn, poll, syncVars, oauthVars>>
  /\ UNCHANGED restVars

\* ------------------------------------------------------------ local events
\* the provider_event_id of an event the provider has not accepted yet
NoPid == ""

\* CalendarEvent(provider_event_id="", sync_status=PENDING)
PendingRow ==
  [deleted |-> FALSE, sync_status |-> "PENDING", status |-> "CONFIRMED"]

\* the CalendarEvent rows of the connection by provider_event_id
event_rows(rows, loc) ==
  [pid \in Pids \cup {NoPid} |-> IF pid = NoPid THEN loc ELSE rows[pid]]

\* the request that creates events on a Microsoft connection
CreateProcs == {"p2"}

\* what the provider answers to the create call: the id of the event it made,
\* an id no row of the connection carries yet, or a failure
NoResult == "none"
CreateResults == {NoResult} \cup {pid \in Pids : events[pid] = <<>>}

\* create_event_and_sync 65-66: db.add(event); db.flush() outside the try; an
\* IntegrityError leaves through the router as HTTP 500
create_flush_refused ==
  ~unique_calendar_provider_event(event_rows(events, Append(local, PendingRow)))

\* create_event_and_sync 68-108 from the provider's answer on
create_event_finish(result) ==
  IF result = NoResult
  THEN \* 95-99: the row stays PENDING with an empty provider_event_id
       /\ local' = Append(local, PendingRow)
       /\ events' = events
       /\ created' = "pending"
  ELSE LET rows == [events EXCEPT ![result] = Append(@, SyncedRow)]
       IN IF unique_calendar_provider_event(event_rows(rows, local))
          THEN \* 77-82
               /\ events' = rows
               /\ local' = local
               /\ created' = "synced"
          ELSE \* IntegrityError at db.commit(); the commit of the except
               \* branch finds the transaction rolled back
               /\ UNCHANGED <<events, local>>
               /\ created' = "refused"

\* router.create_event on a Google connection: client.create_event blocks,
\* the request is one step
create_event_google ==
  /\ provider = "google"
  /\ IF create_flush_refused
     THEN /\ created' = "refused"
          /\ UNCHANGED <<events, local>>
     ELSE \E result \in CreateResults : create_event_finish(result)
  /\ UNCHANGED <<provider, conn, now, poll, syncVars, oauthVars>>
  /\ UNCHANGED notLocal

\* router.create_event on a Microsoft connection up to "await http_client.post";
\* sent holds the answer that is on its way
create_event_microsoft(p) ==
  /\ provider = "microsoft"
  /\ proc[p].pc = "idle"
  /\ IF create_flush_refused
     THEN /\ created' = "refused"
          /\ proc' = proc
     ELSE /\ \E result \in CreateResults :
               proc' = [proc EXCEPT ![p] = [pc |-> "create", sent |-> result]]
          /\ created' = created
  /\ UNCHANGED <<provider, events, conn, now, poll, sub, hist, notif, oauthVars, local>>
  /\ UNCHANGED notLocal

\* the post returns
CreateReturn(p) ==
  /\ proc[p].pc = "create"
  /\ create_event_finish(proc[p].sent)
  /\ proc' = [proc EXCEPT ![p] = Idle]
  /\ UNCHANGED <<provider, conn, now, poll, sub, hist, notif, oauthVars>>
  /\ UNCHANGED notLocal

\* row targets of a request on an event: a provider id, or the row without one
Targets == Pids \cup {NoPid}

\* router.delete_event -> delete_event_and_sync: the event is found with
\* deleted_at NULL, a provider failure is only logged
delete_event(target) ==
  /\ provider \in {"google", "microsoft"}
  /\ LET all == event_rows(events, local)
     IN /\ all[target] # <<>>
        /\ ~Head(all[target]).deleted
        /\ LET row == [Head(all[target]) EXCEPT !.deleted = TRUE,
                                                !.sync_status = "DELETED"]
           IN IF target = NoPid
              THEN /\ local' = <<row>> \o Tail(local)
                   /\ events' = events
              ELSE /\ events' = [events EXCEPT ![target] = <<row>> \o Tail(@)]
                   /\ local' = local
  /\ UNCHANGED <<provider, conn, now, poll, syncVars, oauthVars, created>>
  /\ UNCHANGED notLocal

\* router.retry_sync_event -> retry_sync_event on the row that never reached
\* the provider
retry_sync_event ==
  /\ provider \in {"google", "microsoft"}
  /\ local # <<>>
  /\ ~Head(local).deleted
  /\ \E result \in CreateResults :
       IF result = NoResult
       THEN \* 293-297
            /\ local' = <<[Head(local) EXCEPT !.sync_status = "FAILED"]>> \o Tail(local)
            /\ events' = events
       ELSE \* 283-288
            LET rows == [events EXCEPT ![result] = Append(@, SyncedRow)]
            IN IF unique_calendar_provider_event(event_rows(rows, Tail(local)))
               THEN /\ events' = rows
                    /\ local' = Tail(local)
               ELSE UNCHANGED <<events, local>>
  /\ UNCHANGED <<provider, conn, now, poll, syncVars, oauthVars, created>>
  /\ UNCHANGED notLocal

\* ------------------------------------------------------------- connections
MaxFeeds == 2

\* remote calendars; the Google account lists two, the Microsoft account one
CalIds == {"c1", "c2"}
OAuthProviders == {"google", "microsoft"}
ListedCalendars(prov) == IF prov = "google" THEN CalIds ELSE {"c1"}
AccessTokens == {"a1", "a2"}
FeedUrls == {"f1"}
\* initialization vectors os.urandom hands to Fernet
Ivs == 1 .. MaxFeeds
NoUrl == <<>>

\* encryption_service.encrypt: Fernet, a fresh IV per call
encrypt_token(plain, iv) == <<plain, iv>>

\* str(uuid4()) of the n-th feed connection
uuid4(n) == <<"uuid", n>>

\* (provider, calendar_id) of the rows the user can have
ConnKeys ==
  {<<prov, c>> : prov \in OAuthProviders, c \in CalIds}
    \cup {<<"ics", uuid4(n)>> : n \in 1 .. MaxFeeds}

NoConnections == [key \in ConnKeys |-> <<>>]

\* revived: the calendars of the request whose row was soft-deleted before it
NoRequest == [seq |-> 0, op |-> "none", provider |-> "none", ids |-> {},
              revived |-> {}]

\* a lookup that leaves soft-deleted connections out
find_connection_not_deleted(rows, prov, cal_id) ==
  SelectSeq(rows[<<prov, cal_id>>], LAMBDA r : ~r.deleted)

\* db.query(CalendarConnection).filter(user_id, provider, calendar_id): rows
\* flushed earlier in the request are visible
find_connection(rows, prov, cal_id) == rows[<<prov, cal_id>>]

\* UniqueConstraint("user_id", "provider", "calendar_id")
unique_user_calendar(rows) == \A key \in DOMAIN rows : Len(rows[key]) <= 1

\* one turn of the loop over body.selected_calendar_ids, up to db.flush()
select_one(rows, prov, available, token, cal_id) ==
  IF cal_id \notin available THEN rows
  ELSE IF find_connection(rows, prov, cal_id) # <<>>
       THEN [rows EXCEPT ![<<prov, cal_id>>][1].access_token = token,
                         ![<<prov, cal_id>>][1].is_connected = TRUE,
                         ![<<prov, cal_id>>][1].deleted = FALSE]
       ELSE [rows EXCEPT ![<<prov, cal_id>>] =
               Append(@, [access_token |-> token, ics_url |-> NoUrl,
                          is_connected |-> TRUE, deleted |-> FALSE])]

RECURSIVE select_all(_, _, _, _, _)
select_all(rows, prov, available, token, selected) ==
  IF selected = <<>> THEN rows
  ELSE select_all(select_one(rows, prov, available, token, Head(selected)),
                  prov, available, token, Tail(selected))

\* body.selected_calendar_ids: nothing, one calendar, one calendar twice, two
Selections ==
  {<<>>, <<"c1">>, <<"c2">>, <<"c1", "c1">>, <<"c1", "c2">>}

Range(f) == {f[i] : i \in DOMAIN f}

\* select_google_calendars / select_microsoft_calendars once the session is
\* consumed: no await, the request is one step
select_calendars(prov, available, token, selected) ==
  /\ LET rows == select_all(connections, prov, available, token, selected)
     IN IF unique_user_calendar(rows)
        THEN connections' = rows
        ELSE \* IntegrityError at db.flush(): HTTP 500, nothing is committed
             connections' = connections
  /\ request' = [seq |-> 1 - request.seq, op |-> "select", provider |-> prov,
                 ids |-> Range(selected) \cap available,
                 revived |-> {c \in Range(selected) \cap available :
                               \E i \in DOMAIN connections[<<prov, c>>] :
                                 connections[<<prov, c>>][i].deleted}]
  /\ UNCHANGED <<provider, events, conn, now, poll, syncVars, oauthVars>>
  /\ UNCHANGED notConn

select_google_calendars(available, token, selected) ==
  select_calendars("google", available, token, selected)

select_microsoft_calendars(available, token, selected) ==
  select_calendars("microsoft", available, token, selected)

\* the feed connections made so far
FeedKeys(rows) == {key \in DOMAIN rows : key[1] = "ics" /\ rows[key] # <<>>}

\* connect_ics_calendar from the lookup to the commit; the lookup compares the
\* stored ciphertext with a new encryption of the url
connect_ics_calendar(url, iv) ==
  /\ Cardinality(FeedKeys(connections)) < MaxFeeds
  \* a fresh IV: which of the unused ones makes no difference, take the next
  /\ iv = Cardinality(FeedKeys(connections)) + 1
  /\ LET existing == {key \in FeedKeys(connections) :
                        connections[key][1].ics_url = encrypt_token(url, iv)}
         new == <<"ics", uuid4(Cardinality(FeedKeys(connections)) + 1)>>
         rows == IF existing # {}
                 THEN LET key == CHOOSE k \in existing : TRUE
                      IN [connections EXCEPT ![key][1].is_connected = TRUE,
                                             ![key][1].deleted = FALSE]
                 ELSE [connections EXCEPT ![new] =
                         Append(@, [access_token |-> "none",
                                    ics_url |-> encrypt_token(url, iv),
                                    is_connected |-> TRUE, deleted |-> FALSE])]
     IN /\ unique_user_calendar(rows)
        /\ connections' = rows
  /\ request' = [seq |-> 1 - request.seq, op |-> "connect_ics",
                 provider |-> "ics", ids |-> {}, revived |-> {}]
  /\ UNCHANGED <<provider, events, conn, now, poll, syncVars, oauthVars>>
  /\ UNCHANGED notConn

\* router.disconnect_calendar: get_calendar_connection finds the row with
\* deleted_at NULL
disconnect_calendar(key) ==
  /\ connections[key] # <<>>
  /\ ~connections[key][1].deleted
  /\ connections' = [connections EXCEPT ![key][1].is_connected = FALSE,
                                        ![key][1].deleted = TRUE]
  /\ request' = [seq |-> 1 - request.seq, op |-> "disconnect",
                 provider |-> key[1], ids |-> {}, revived |-> {}]
  /\ UNCHANGED <<provider, events, conn, now, poll, syncVars, oauthVars>>
  /\ UNCHANGED notConn

\* ------------------------------------------------------------------ tokens
MaxFailures == 2
MaxRefreshes == 2

Unauthorized == 401
ServerError == 500
Ok == 200

\* token_expired: token_expires_at < utcnow(); access_token: how many times
\* the stored access token was replaced; token_valid / grant_valid: the
\* provider accepts the stored access token / refresh token; calls: the
\* provider calls of the last pass and their answers; failures: passes that
\* raised since the last one that returned
NoAuth == [token_expired |-> FALSE, access_token |-> 0, token_valid |-> TRUE,
           grant_valid |-> TRUE, is_connected |-> TRUE, calls |-> <<>>,
           outcome |-> "none", failures |-> 0]

\* refresh_access_token: a ValueError when the provider refuses the grant
refresh_access_token(a) ==
  [call |-> "refresh", answer |-> IF a.grant_valid THEN Ok ELSE Unauthorized]

\* get_events / get_delta_events with the access token in hand: the answers
\* the provider can give
get_events(valid) ==
  IF valid THEN {[call |-> "get_events", answer |-> Ok],
                 [call |-> "get_events", answer |-> ServerError]}
           ELSE {[call |-> "get_events", answer |-> Unauthorized]}

\* the pass ends in "except Exception: raise": the session is rolled back
pass_raised(a, calls) ==
  [a EXCEPT !.calls = calls, !.outcome = "raised",
            !.failures = IF @ < MaxFailures THEN @ + 1 ELSE @]

\* the pass returns and its session is committed
pass_returned(a, calls) ==
  [a EXCEPT !.calls = calls, !.outcome = "ok", !.failures = 0]

\* sync_google_events 64-137 / sync_microsoft_events 213-281 as far as the
\* tokens go
sync_tokens ==
  /\ provider \in {"google", "microsoft"}
  /\ auth.is_connected
  /\ IF auth.token_expired
     THEN LET r == refresh_access_token(auth)
          IN IF r.answer # Ok
             THEN auth' = pass_raised(auth, <<r>>)
             ELSE \* the new access token is used, stored and flushed
                  /\ auth.access_token < MaxRefreshes
                  /\ \E g \in get_events(TRUE) :
                       IF g.answer # Ok
                       THEN auth' = pass_raised(auth, <<r, g>>)
                       ELSE auth' = pass_returned(
                                      [auth EXCEPT !.token_expired = FALSE,
                                                   !.token_valid = TRUE,
                                                   !.access_token = @ + 1],
                                      <<r, g>>)
     ELSE \E g \in get_events(auth.token_valid) :
            IF g.answer # Ok
            THEN auth' = pass_raised(auth, <<g>>)
            ELSE auth' = pass_returned(auth, <<g>>)
  /\ UNCHANGED <<provider, events, conn, now, poll, syncVars, oauthVars>>
  /\ UNCHANGED notAuth

\* token_expires_at passes
token_expires ==
  /\ ~auth.token_expired
  /\ auth' = [auth EXCEPT !.token_expired = TRUE]
  /\ UNCHANGED <<provider, events, conn, now, poll, syncVars, oauthVars>>
  /\ UNCHANGED notAuth

\* the provider stops accepting the access token (revoked, password changed)
token_revoked ==
  /\ auth.token_valid
  /\ auth' = [auth EXCEPT !.token_valid = FALSE]
  /\ UNCHANGED <<provider, events, conn, now, poll, syncVars, oauthVars>>
  /\ UNCHANGED notAuth

\* the provider stops accepting the refresh token
grant_revoked ==
  /\ auth.grant_valid
  /\ auth' = [auth EXCEPT !.grant_valid = FALSE, !.token_valid = FALSE]
  /\ UNCHANGED <<provider, events, conn, now, poll, syncVars, oauthVars>>
  /\ UNCHANGED notAuth

\* ---------------------------------------------------- subscription renewal
\* time in half days, the interval of the renewal job
MaxHalfDays == 3

\* timedelta(hours=24)
ExpiringSoonHalfDays == 2
\* renew_subscription: expiration_minutes 4230, in whole half days
RenewedHalfDays == 4230 \div 720
\* _create_google_subscription: timedelta(days=7); Microsoft grants what
\* create_webhook_subscription asks for, the 4230 minutes of a renewal
SubscriptionHalfDays(prov) == IF prov = "google" THEN 14 ELSE RenewedHalfDays
\* what is left, at the start, of the life of a subscription made earlier
RemainingHalfDays == {1, 3}

SubIds == {"s1", "s2"}
SubOrder == <<"s1", "s2">>

NoSubscription ==
  [provider |-> "none", is_active |-> FALSE, expiration_datetime |-> 0,
   connected |-> FALSE]

\* refused: history, the subscriptions the provider ever refused to renew
NoJob == [pc |-> "idle", queue |-> <<>>, selected |-> {}, renewed |-> {},
          failed |-> {}, skipped |-> {}, refused |-> {}]

\* jobs.py 142-149: the query of the run
expiring(rows, sid, t) ==
  /\ rows[sid].is_active
  /\ rows[sid].expiration_datetime < t + ExpiringSoonHalfDays
  /\ rows[sid].connected

\* jobs.py 142-149, 154: the run starts and loads the subscriptions to renew
renew_webhook_subscriptions ==
  /\ job.pc = "idle"
  /\ job' = [job EXCEPT !.pc = "run",
                        !.queue = SelectSeq(SubOrder, LAMBDA sid : expiring(subs, sid, now)),
                        !.selected = {sid \in SubIds : expiring(subs, sid, now)},
                        !.renewed = {}, !.failed = {}, !.skipped = {}]
  /\ UNCHANGED <<provider, events, conn, now, poll, syncVars, oauthVars, subs>>
  /\ UNCHANGED notRenew

\* a failure handler that logs and leaves the subscription as it is
renewal_failed_logged(j, sid) == j

\* jobs.py 187-191: except Exception: subscription.is_active = False
renewal_failed(j, sid) == [j EXCEPT !.failed = @ \cup {sid}]

RenewAnswers == {"renewed", "refresh_failed", "renew_failed"}

\* jobs.py 154-191: one turn of the loop
renew_one(answer) ==
  /\ job.pc = "run"
  /\ job.queue # <<>>
  /\ LET sid == Head(job.queue)
         j == [job EXCEPT !.queue = Tail(@)]
     IN IF subs[sid].provider # "microsoft"
        THEN \* 158-160: continue
             job' = [j EXCEPT !.skipped = @ \cup {sid}]
        ELSE IF answer = "renewed"
        THEN job' = [j EXCEPT !.renewed = @ \cup {sid}]
        ELSE job' = [renewal_failed(j, sid) EXCEPT !.refused = @ \cup {sid}]
  /\ UNCHANGED <<provider, events, conn, now, poll, syncVars, oauthVars, subs>>
  /\ UNCHANGED notRenew

\* jobs.py 193: db.commit() writes the changed columns
renew_commit ==
  /\ job.pc = "run"
  /\ job.queue = <<>>
  /\ subs' = [sid \in SubIds |->
                [subs[sid] EXCEPT
                   !.is_active = IF sid \in job.failed THEN FALSE ELSE @,
                   !.expiration_datetime =
                      IF sid \in job.renewed THEN now + RenewedHalfDays ELSE @]]
  /\ job' = [job EXCEPT !.pc = "idle"]
  /\ UNCHANGED <<provider, events, conn, now, poll, syncVars, oauthVars>>
  /\ UNCHANGED notRenew

\* create_webhook_subscription for a connected calendar
subscribe(sid, prov) ==
  /\ subs[sid] = NoSubscription
  /\ subs' = [subs EXCEPT ![sid] = [provider |-> prov, is_active |-> TRUE,
                                    expiration_datetime |->
                                      now + SubscriptionHalfDays(prov),
                                    connected |-> TRUE]]
  /\ UNCHANGED <<provider, events, conn, now, poll, syncVars, oauthVars, job>>
  /\ UNCHANGED notRenew

\* router.disconnect_calendar on the connection of a subscription
disconnect_subscribed(sid) ==
  /\ subs[sid].connected
  /\ subs' = [subs EXCEPT ![sid].connected = FALSE, ![sid].is_active = FALSE]
  /\ UNCHANGED <<provider, events, conn, now, poll, syncVars, oauthVars, job>>
  /\ UNCHANGED notRenew

\* twelve hours pass between two runs
HalfDay ==
  /\ job.pc = "idle"
  /\ now < MaxHalfDays
  /\ now' = now + 1
  /\ UNCHANGED <<provider, events, conn, poll, syncVars, oauthVars, renewVars>>
  /\ UNCHANGED notRenew

\* ----------------------------------------------------- recurrence expander
\* datetimes are hours since midnight of day D (day 0), all in one time zone
MaxDays == 3
Day == 24
Horizon == MaxDays * Day
date(t) == t \div Day

\* max_instances: int = 100
MaxInstances == 100

\* text is a sequence of characters
DigitChars == <<"0", "1", "2", "3", "4", "5", "6", "7", "8", "9">>
Digit(n) == DigitChars[n + 1]
IsDigit(c) == \E n \in 0 .. 9 : DigitChars[n + 1] = c
Val(c) == CHOOSE n \in 0 .. 9 : DigitChars[n + 1] = c

\* a format that keeps the date and drops the time of day
isoformat_date(t) == <<"d", Digit(date(t))>>

\* datetime.isoformat(): "YYYY-MM-DDTHH:MM:SS", here the day, "T", the hour
isoformat(t) ==
  <<"d", Digit(date(t)), "T", Digit((t % Day) \div 10), Digit((t % Day) % 10)>>

\* datetime.fromisoformat: a date-time, a date alone, or ValueError
fromisoformat(text) ==
  IF /\ Len(text) = 5 /\ text[1] = "d" /\ IsDigit(text[2]) /\ text[3] = "T"
     /\ IsDigit(text[4]) /\ IsDigit(text[5])
     /\ Val(text[4]) * 10 + Val(text[5]) < Day
  THEN [ok |-> TRUE, t |-> Val(text[2]) * Day + Val(text[4]) * 10 + Val(text[5])]
  ELSE IF Len(text) = 2 /\ text[1] = "d" /\ IsDigit(text[2])
  THEN [ok |-> TRUE, t |-> Val(text[2]) * Day]
  ELSE [ok |-> FALSE, t |-> 0]

\* str(event.id): a UUID in its text form, hex digits and hyphens
SeriesId == <<"a", "-", "1">>
OtherId == <<"b", "-", "2">>
UuidChars == {"a", "b", "-", "1", "2"}
IsUuid(text) == text # <<>> /\ \A i \in DOMAIN text : text[i] \in UuidChars

\* a recurrence rule is text of KEY=value parts separated by ";"
RDaily == << <<"FREQ", "DAILY">> >>
RDaily2 == << <<"FREQ", "DAILY">>, <<"INTERVAL", "2">> >>
RDailyCount == << <<"FREQ", "DAILY">>, <<"COUNT", "2">> >>
RHourly12 == << <<"FREQ", "HOURLY">>, <<"INTERVAL", "12">> >>
RBadFreq == << <<"FREQ", "DAYLY">> >>
RBadKey == << <<"FREQUENCY", "DAILY">> >>
RBadInterval == << <<"FREQ", "DAILY">>, <<"INTERVAL", "x">> >>
NoRule == <<>>
RuleTexts == {RDaily, RDaily2, RDailyCount, RHourly12, RBadFreq, RBadKey,
              RBadInterval, NoRule}

FreqHours == [f \in {"DAILY", "HOURLY"} |-> IF f = "DAILY" THEN Day ELSE 1]
Numerals == [n \in {"1", "2", "12"} |-> IF n = "1" THEN 1 ELSE IF n = "2" THEN 2 ELSE 12]
PartValues(text, key) == {text[i][2] : i \in {j \in DOMAIN text : text[j][1] = key}}
PartOr(text, key, default) ==
  IF PartValues(text, key) = {} THEN default
  ELSE Numerals[CHOOSE v \in PartValues(text, key) : TRUE]

\* dateutil.rrule.rrulestr(text, dtstart=...): ValueError on an unknown
\* part, an unknown frequency or a value that is no number; count 0: no end
rrulestr(text, dtstart) ==
  IF /\ \A i \in DOMAIN text : text[i][1] \in {"FREQ", "INTERVAL", "COUNT"}
     /\ Cardinality(PartValues(text, "FREQ")) = 1
     /\ PartValues(text, "FREQ") \subseteq DOMAIN FreqHours
     /\ PartValues(text, "INTERVAL") \cup PartValues(text, "COUNT") \subseteq DOMAIN Numerals
  THEN [ok |-> TRUE, dtstart |-> dtstart,
        step |-> FreqHours[CHOOSE f \in PartValues(text, "FREQ") : TRUE]
                   * PartOr(text, "INTERVAL", 1),
        count |-> PartOr(text, "COUNT", 0)]
  ELSE [ok |-> FALSE, dtstart |-> dtstart, step |-> 0, count |-> 0]

RECURSIVE Ascending(_)
Ascending(S) ==
  IF S = {} THEN <<>>
  ELSE LET least == CHOOSE t \in S : \A u \in S : t <= u
       IN <<least>> \o Ascending(S \ {least})

\* an interval test that leaves both ends out
between_exclusive(rule, after, before) ==
  Ascending({t \in 0 .. Horizon :
               /\ t >= rule.dtstart
               /\ (t - rule.dtstart) % rule.step = 0
               /\ (rule.count = 0 \/ (t - rule.dtstart) \div rule.step < rule.count)
               /\ after < t /\ t < before})

\* rule.between(after, before, inc=True)
between(rule, after, before) ==
  Ascending({t \in 0 .. Horizon :
               /\ t >= rule.dtstart
               /\ (t - rule.dtstart) % rule.step = 0
               /\ (rule.count = 0 \/ (t - rule.dtstart) \div rule.step < rule.count)
               /\ after <= t /\ t <= before})

First(seq, n) == SubSeq(seq, 1, IF Len(seq) < n THEN Len(seq) ELSE n)

\* event.exception_dates, a Text column. form: "comma" - dates separated by
\* commas; "json" - a JSON list; "number" - one date in basic format
\* (YYYYMMDD), which json.loads reads as a number. An entry is a date, text
\* parse_date rejects ("bad"), or a JSON value that is no string ("nonstr")
ExDate(day) == [kind |-> "date", day |-> day]
BadEntry == [kind |-> "bad", day |-> 0]
NonString == [kind |-> "nonstr", day |-> 0]
NoExDates == [form |-> "null", entries |-> <<>>]
ExTexts ==
  {NoExDates,
   [form |-> "comma", entries |-> <<ExDate(1)>>],
   [form |-> "comma", entries |-> <<ExDate(1), BadEntry>>],
   [form |-> "comma", entries |-> <<BadEntry, ExDate(1)>>],
   [form |-> "json", entries |-> <<ExDate(1), NonString>>],
   [form |-> "number", entries |-> <<ExDate(1)>>]}

\* recurrence.py 79-82: the loop over exdates until parse_date raises
RECURSIVE parsed_dates(_)
parsed_dates(entries) ==
  IF entries = <<>> THEN {}
  ELSE IF Head(entries).kind = "bad" THEN {}
  ELSE IF Head(entries).kind = "nonstr" THEN parsed_dates(Tail(entries))
  ELSE {Head(entries).day} \cup parsed_dates(Tail(entries))

\* recurrence.py 66-84
exception_dates(text) ==
  IF text.form = "null" THEN {}
  ELSE IF text.form = "number" THEN {}  \* iterating a number: TypeError, logged
  ELSE parsed_dates(text.entries)

\* a handler that passes the series on as a single entry
parse_failed_single(event) ==
  <<[id |-> event.id, original_event_id |-> event.id,
     start_time |-> event.start_time, end_time |-> event.end_time]>>

\* recurrence.py 50-52: except Exception: return []
parse_failed(event) == <<>>

\* recurrence.py 86-118
RECURSIVE instances(_, _, _, _, _, _)
instances(event, occurrences, duration, exdates, range_start, range_end) ==
  IF occurrences = <<>> THEN <<>>
  ELSE LET occurrence_start == Head(occurrences)
           occurrence_end == occurrence_start + duration
           rest == instances(event, Tail(occurrences), duration, exdates,
                             range_start, range_end)
       IN IF date(occurrence_start) \in exdates THEN rest
          ELSE IF occurrence_end < range_start \/ occurrence_start > range_end
          THEN rest
          ELSE <<[id |-> event.id \o <<"_">> \o isoformat(occurrence_start),
                  original_event_id |-> event.id,
                  start_time |-> occurrence_start,
                  end_time |-> occurrence_end]>> \o rest

\* expand_recurring_event: what it returns, and whether it raises
expand_recurring_event(event, range_start, range_end) ==
  IF ~event.is_recurring \/ event.recurrence_rule = NoRule
  THEN [raised |-> FALSE, out |-> <<>>]
  ELSE LET duration == event.end_time - event.start_time
           rule == rrulestr(event.recurrence_rule, event.start_time)
       IN IF ~rule.ok
          THEN [raised |-> FALSE, out |-> parse_failed(event)]
          ELSE [raised |-> FALSE,
                out |-> instances(event,
                                  First(between(rule, range_start - duration, range_end),
                                        MaxInstances),
                                  duration, exception_dates(event.exception_dates),
                                  range_start, range_end)]

\* list.sort(key=start_time): stable
RECURSIVE insert_sorted(_, _)
insert_sorted(sorted, e) ==
  IF sorted = <<>> THEN <<e>>
  ELSE IF e.start_time < Head(sorted).start_time THEN <<e>> \o sorted
  ELSE <<Head(sorted)>> \o insert_sorted(Tail(sorted), e)

RECURSIVE sort_by_start(_)
sort_by_start(entries) ==
  IF entries = <<>> THEN <<>>
  ELSE insert_sorted(sort_by_start(SubSeq(entries, 1, Len(entries) - 1)),
                     entries[Len(entries)])

\* recurrence.py 153-179: the loop of get_events_with_recurrence_expansion
RECURSIVE collect(_, _, _)
collect(evs, range_start, range_end) ==
  IF evs = <<>> THEN [raised |-> FALSE, out |-> <<>>]
  ELSE LET event == Head(evs)
           rest == collect(Tail(evs), range_start, range_end)
       IN IF event.is_recurring /\ event.recurrence_rule # NoRule
          THEN LET x == expand_recurring_event(event, range_start, range_end)
               IN [raised |-> x.raised \/ rest.raised, out |-> x.out \o rest.out]
          ELSE IF event.start_time <= range_end /\ event.end_time >= range_start
          THEN [rest EXCEPT !.out =
                  <<[id |-> event.id, original_event_id |-> event.id,
                     start_time |-> event.start_time,
                     end_time |-> event.end_time]>> \o @]
          ELSE rest

get_events_with_recurrence_expansion(evs, range_start, range_end) ==
  LET c == collect(evs, range_start, range_end)
  IN IF c.raised THEN [raised |-> TRUE, out |-> <<>>]
     ELSE [raised |-> FALSE, out |-> sort_by_start(c.out)]

\* str.rsplit("_", 1)
rsplit(text) ==
  LET i == CHOOSE k \in DOMAIN text :
             text[k] = "_" /\ \A l \in DOMAIN text : text[l] = "_" => l <= k
  IN <<SubSeq(text, 1, i - 1), SubSeq(text, i + 1, Len(text))>>

\* get_event_by_id 427-470: the series id and the instance start read from
\* the id of the request
parse_event_id(event_id) ==
  IF "_" \in Range(event_id)
  THEN [actual_event_id |-> rsplit(event_id)[1],
        valid |-> IsUuid(rsplit(event_id)[1]),
        instance_start |-> fromisoformat(rsplit(event_id)[2])]
  ELSE [actual_event_id |-> event_id, valid |-> IsUuid(event_id),
        instance_start |-> [ok |-> FALSE, t |-> 0]]

NoOutcome == [done |-> FALSE, raised |-> FALSE, out |-> <<>>]

Series ==
  [id : {SeriesId}, is_recurring : BOOLEAN, recurrence_rule : RuleTexts,
   start_time : {9}, end_time : {10}, exception_dates : ExTexts]

\* a single event of the same listing
Singles ==
  [id : {OtherId}, is_recurring : {FALSE}, recurrence_rule : {NoRule},
   start_time : {8, Day + 12}, end_time : {Day + 13},
   exception_dates : {NoExDates}]

RangeStarts == {0, 9, 11}
RangeEnds == {Day + 9, 2 * Day, 2 * Day + 9}

NoRec ==
  [event |-> [id |-> SeriesId, is_recurring |-> FALSE, recurrence_rule |-> NoRule,
              start_time |-> 9, end_time |-> 10, exception_dates |-> NoExDates],
   other |-> [id |-> OtherId, is_recurring |-> FALSE, recurrence_rule |-> NoRule,
              start_time |-> 8, end_time |-> Day + 13,
              exception_dates |-> NoExDates],
   range_start |-> 0, range_end |-> 2 * Day,
   expansion |-> NoOutcome, listing |-> NoOutcome]

\* expand_recurring_event is called on the series
expand ==
  /\ ~rec.expansion.done
  /\ LET x == expand_recurring_event(rec.event, rec.range_start, rec.range_end)
     IN rec' = [rec EXCEPT !.expansion = [done |-> TRUE, raised |-> x.raised,
                                          out |-> x.out]]
  /\ UNCHANGED <<provider, events, conn, now, poll, syncVars, oauthVars>>
  /\ UNCHANGED notRec

\* get_events_with_recurrence_expansion is called on the series and the
\* single event
list_events ==
  /\ ~rec.listing.done
  /\ LET x == get_events_with_recurrence_expansion(<<rec.event, rec.other>>,
                                                   rec.range_start, rec.range_end)
     IN rec' = [rec EXCEPT !.listing = [done |-> TRUE, raised |-> x.raised,
                                        out |-> x.out]]
  /\ UNCHANGED <<provider, events, conn, now, poll, syncVars, oauthVars>>
  /\ UNCHANGED notRec

\* -------------------------------------------------------------- free / busy
\* datetimes of this part are minutes since midnight of the first day
MinutesPerDay == 1440
MinutesPerHour == 60

hour(dt) == (dt \div MinutesPerHour) % 24

\* dt.replace(hour=h, minute=0, second=0, microsecond=0)
replace_hour(dt, h) == (dt \div MinutesPerDay) * MinutesPerDay + h * MinutesPerHour

Min(a, b) == IF a < b THEN a ELSE b
Max(a, b) == IF a > b THEN a ELSE b

\* FreeTimeCalculator(excluded_hours, min_slot_minutes)
Calculators ==
  {[excluded_start |-> 0, excluded_end |-> 6, min_slot_minutes |-> 30],
   [excluded_start |-> 0, excluded_end |-> 6, min_slot_minutes |-> 60],
   [excluded_start |-> 22, excluded_end |-> 6, min_slot_minutes |-> 30]}

is_excluded_hour(calc, dt) ==
  IF calc.excluded_start < calc.excluded_end
  THEN calc.excluded_start <= hour(dt) /\ hour(dt) < calc.excluded_end
  ELSE hour(dt) >= calc.excluded_start \/ hour(dt) < calc.excluded_end

next_valid_hour(calc, dt) ==
  LET next_dt == replace_hour(dt, calc.excluded_end)
  IN IF next_dt <= dt THEN next_dt + MinutesPerDay ELSE next_dt

end_of_valid_period(calc, dt) ==
  IF calc.excluded_start = 0
  THEN replace_hour(dt + MinutesPerDay, 0)
  ELSE LET end == replace_hour(dt, calc.excluded_start)
       IN IF end <= dt THEN end + MinutesPerDay ELSE end

\* the while loop of _extract_valid_slots from `current` on
RECURSIVE extract_valid_slots(_, _, _)
extract_valid_slots(calc, current, end) ==
  IF ~(current < end) THEN <<>>
  ELSE IF is_excluded_hour(calc, current)
  THEN extract_valid_slots(calc, next_valid_hour(calc, current), end)
  ELSE LET day_end == end_of_valid_period(calc, current)
           slot_end == Min(end, day_end)
           duration == slot_end - current
       IN IF slot_end <= current
          THEN extract_valid_slots(calc, next_valid_hour(calc, current), end)
          ELSE (IF duration >= calc.min_slot_minutes
                THEN <<[start_time |-> current, end_time |-> slot_end,
                        duration_minutes |-> duration]>>
                ELSE <<>>)
               \o extract_valid_slots(calc, slot_end, end)

generate_free_slots_for_range(calc, start, end) ==
  extract_valid_slots(calc, start, end)

\* the loop of _merge_busy_blocks over sorted_blocks[1:]
RECURSIVE merge_into(_, _)
merge_into(merged, rest) ==
  IF rest = <<>> THEN merged
  ELSE LET current == Head(rest)
           last == merged[Len(merged)]
       IN IF current.start_time <= last.end_time
          THEN merge_into([merged EXCEPT ![Len(merged)].end_time =
                             Max(last.end_time, current.end_time)], Tail(rest))
          ELSE merge_into(Append(merged, current), Tail(rest))

\* blocks sorted by start time and left as they are
merge_busy_blocks_sorted_only(busy_blocks) == sort_by_start(busy_blocks)

merge_busy_blocks(busy_blocks) ==
  IF busy_blocks = <<>> THEN <<>>
  ELSE LET sorted_blocks == sort_by_start(busy_blocks)
       IN merge_into(<<Head(sorted_blocks)>>, Tail(sorted_blocks))

\* the loop of find_free_slots over the merged blocks and the check after it
RECURSIVE gaps(_, _, _, _)
gaps(calc, merged, current, end_date) ==
  IF merged = <<>>
  THEN IF current < end_date THEN extract_valid_slots(calc, current, end_date)
       ELSE <<>>
  ELSE LET busy == Head(merged)
       IN (IF current < busy.start_time
           THEN extract_valid_slots(calc, current, busy.start_time)
           ELSE <<>>)
          \o gaps(calc, Tail(merged), Max(current, busy.end_time), end_date)

find_free_slots(calc, busy_blocks, start_date, end_date) ==
  IF busy_blocks = <<>>
  THEN generate_free_slots_for_range(calc, start_date, end_date)
  ELSE gaps(calc, merge_busy_blocks(busy_blocks), start_date, end_date)

\* User rows; the second user has no full_name
NoName == <<>>
Users ==
  <<[id |-> 1, email |-> <<"a", "n", "@", "x">>, full_name |-> <<"A", "n">>],
    [id |-> 2, email |-> <<"b", "o", "@", "x">>, full_name |-> NoName]>>

\* email.split('@')[0]
RECURSIVE split_at(_)
split_at(text) ==
  IF text = <<>> \/ Head(text) = "@" THEN <<>>
  ELSE <<Head(text)>> \o split_at(Tail(text))

\* a busy block that also names the event
busy_block_with_title(user, event) ==
  [user_id |-> user.id,
   user_name |-> IF user.full_name # NoName THEN user.full_name
                 ELSE split_at(user.email),
   start_time |-> event.start_time, end_time |-> event.end_time,
   is_all_day |-> event.is_all_day, title |-> event.title]

\* busy_time_service.py 146-155
busy_block(user, event) ==
  [user_id |-> user.id,
   user_name |-> IF user.full_name # NoName THEN user.full_name
                 ELSE split_at(user.email),
   start_time |-> event.start_time, end_time |-> event.end_time,
   is_all_day |-> event.is_all_day]

\* the CalendarEvent query of get_busy_blocks for one calendar user
in_range(event, start_date, end_date) ==
  /\ ~event.connection_deleted
  /\ ~event.deleted
  /\ \/ /\ ~event.is_all_day
        /\ event.start_time < end_date
        /\ event.end_time > start_date
     \/ /\ event.is_all_day
        /\ event.start_time < end_date
        /\ event.start_time >= start_date

\* get_busy_blocks: users in the order of the query, their events in the
\* order of the query; a user without CalendarUser row is passed over
RECURSIVE blocks_of(_, _, _, _, _)
blocks_of(db, users, user_ids, start_date, end_date) ==
  IF users = <<>> THEN <<>>
  ELSE LET user == Head(users)
           mine == SelectSeq(db.events,
                     LAMBDA e : e.email = user.email
                                /\ in_range(e, start_date, end_date))
       IN (IF user.id \in user_ids /\ user.email \in db.calendar_users
           THEN [i \in DOMAIN mine |-> busy_block(user, mine[i])]
           ELSE <<>>)
          \o blocks_of(db, Tail(users), user_ids, start_date, end_date)

get_busy_blocks(db, user_ids, start_date, end_date) ==
  blocks_of(db, Users, user_ids, start_date, end_date)

\* the event details a busy block must not show
Titles == {"t1", "t2"}
Locations == {"l1", "l2"}
Timed == {<<540, 600>>, <<570, 660>>, <<600, 660>>, <<330, 420>>, <<640, 700>>}
CalendarEvents(email) ==
  {[email |-> email, connection_deleted |-> FALSE, deleted |-> d,
    is_all_day |-> FALSE, start_time |-> t[1], end_time |-> t[2],
    title |-> title, description |-> "d1", location |-> "l1",
    attendees |-> {"carol"}] :
     d \in BOOLEAN, t \in Timed, title \in Titles}
  \cup {[email |-> email, connection_deleted |-> cd, deleted |-> FALSE,
         is_all_day |-> TRUE, start_time |-> MinutesPerDay,
         end_time |-> 2 * MinutesPerDay,
         title |-> "t1", description |-> "d2", location |-> loc,
         attendees |-> {}] : cd \in BOOLEAN, loc \in Locations}

\* the same rows with the event details blanked
Redacted(db) ==
  [db EXCEPT !.events =
     [i \in DOMAIN db.events |->
        [db.events[i] EXCEPT !.title = "", !.description = "",
                             !.location = "", !.attendees = {}]]]

QueryStarts == {330, 480}
QueryEnds == {680, 720, 1500}

NoFree ==
  [db |-> [calendar_users |-> {}, events |-> <<>>], user_ids |-> {},
   start_date |-> 0, end_date |-> 0,
   calc |-> [excluded_start |-> 0, excluded_end |-> 6, min_slot_minutes |-> 30],
   pc |-> "none", blocks |-> <<>>, slots |-> <<>>]

\* a request for the busy blocks of the selected users
busy_blocks_request ==
  /\ free.pc = "query"
  /\ free' = [free EXCEPT !.pc = "blocks",
                !.blocks = get_busy_blocks(free.db, free.user_ids,
                                           free.start_date, free.end_date)]
  /\ UNCHANGED <<provider, events, conn, now, poll, syncVars, oauthVars>>
  /\ UNCHANGED notFree

\* the blocks handed to the calculator
free_slots_request ==
  /\ free.pc = "blocks"
  /\ free' = [free EXCEPT !.pc = "slots",
                !.slots = find_free_slots(free.calc, free.blocks,
                                          free.start_date, free.end_date)]
  /\ UNCHANGED <<provider, events, conn, now, poll, syncVars, oauthVars>>
  /\ UNCHANGED notFree

\* the calculator called with a list of blocks of any kind
MaxBusy == 2

\* busy intervals around a range: inside it, across its start, before it,
\* across its end, after it
BusyIntervals == Timed \cup {<<300, 500>>, <<700, 760>>,
                             <<MinutesPerDay, 2 * MinutesPerDay>>}
BusyLists ==
  UNION {[1 .. n -> {[start_time |-> t[1], end_time |-> t[2]] :
                       t \in BusyIntervals}] : n \in 0 .. MaxBusy}

\* ---------------------------------------------------------- background jobs
MaxRuns == 2

\* the feed connections in the order the query of the job returns them
IcsOrder == <<"i1", "i2", "i3">>
IcsIds == {"i1", "i2", "i3"}

\* what sync_ics_events meets: a feed, 304, a failure of the request, a feed
\* that does not parse, a connection without ics_url
IcsAnswers == {"ok", "not_modified", "http_error", "timeout", "parse_error",
               "no_url"}

NoEnd == [job |-> "none", returned |-> "none", logged |-> "none"]
NoSched ==
  [feeds |-> [i \in IcsIds |-> [is_connected |-> FALSE, deleted |-> FALSE,
                                last_synced_at |-> 0]],
   pc |-> "idle", runs |-> 0, queue |-> <<>>, selected |-> {},
   synced |-> {}, errors |-> {}, last |-> NoEnd]

\* jobs.py 102-106: the query of sync_ics_calendars
polled(feeds, i) == feeds[i].is_connected /\ ~feeds[i].deleted

\* sync_ics_events seen from the job: it commits last_synced_at and returns,
\* or rolls back and raises
ics_raised(answer) == answer \notin {"ok", "not_modified"}
ics_pass(feeds, i, answer, t) ==
  IF ics_raised(answer) THEN feeds
  ELSE [feeds EXCEPT ![i].last_synced_at = t]

\* the outer handler of a job, `except Exception`: the failure is logged
job_end(name, failed) ==
  [job |-> name, returned |-> "normal",
   logged |-> IF failed THEN "job failed" ELSE "complete"]

\* a handler that gives up the run at the first connection that fails
sync_failed_stops(run, i) ==
  [run EXCEPT !.errors = @ \cup {i}, !.queue = <<>>]

\* jobs.py 115-117: except Exception: error_count += 1
sync_failed(run, i) == [run EXCEPT !.errors = @ \cup {i}]

\* once the loop is over the job logs the counts and returns
ics_loop(run) ==
  IF run.queue = <<>>
  THEN [run EXCEPT !.pc = "idle", !.last = job_end("sync_ics_calendars", FALSE)]
  ELSE run

\* sync_ics_calendars up to the first await
sync_ics_calendars(query_raises) ==
  /\ sched.pc = "idle"
  /\ sched.runs < MaxRuns
  /\ LET run == [sched EXCEPT !.runs = @ + 1, !.selected = {}, !.synced = {},
                              !.errors = {}, !.queue = <<>>]
     IN IF query_raises
        THEN sched' = [run EXCEPT !.last = job_end("sync_ics_calendars", TRUE)]
        ELSE sched' = ics_loop(
               [run EXCEPT !.pc = "ics",
                  !.queue = SelectSeq(IcsOrder, LAMBDA i : polled(sched.feeds, i)),
                  !.selected = {i \in IcsIds : polled(sched.feeds, i)}])
  /\ UNCHANGED <<provider, events, conn, now, poll, syncVars, oauthVars>>
  /\ UNCHANGED notSched

\* one turn of the loop: await sync_ics_events(connection, db) comes back
sync_ics_connection(answer) ==
  /\ sched.pc = "ics"
  /\ sched.queue # <<>>
  /\ LET i == Head(sched.queue)
         run == [sched EXCEPT !.queue = Tail(@),
                   !.feeds = ics_pass(@, i, answer, sched.runs)]
     IN sched' = ics_loop(IF ics_raised(answer) THEN sync_failed(run, i)
                          ELSE [run EXCEPT !.synced = @ \cup {i}])
  /\ UNCHANGED <<provider, events, conn, now, poll, syncVars, oauthVars>>
  /\ UNCHANGED notSched

\* renew_webhook_subscriptions, cleanup_expired_sessions and
\* cleanup_expired_oauth_states seen from the scheduler: whatever is raised
\* inside the try is logged by the handler of the job
OtherJobs == {"renew_webhook_subscriptions", "cleanup_expired_sessions",
              "cleanup_expired_oauth_states"}
background_job(name, raises) ==
  /\ sched.pc = "idle"
  /\ sched.last # job_end(name, raises)
  /\ sched' = [sched EXCEPT !.last = job_end(name, raises)]
  /\ UNCHANGED <<provider, events, conn, now, poll, syncVars, oauthVars>>
  /\ UNCHANGED notSched

\* the user connects a feed, or disconnects it, between the steps of a run
connect_feed(i) ==
  /\ ~sched.feeds[i].is_connected
  /\ ~sched.feeds[i].deleted
  /\ sched' = [sched EXCEPT !.feeds[i].is_connected = TRUE]
  /\ UNCHANGED <<provider, events, conn, now, poll, syncVars, oauthVars>>
  /\ UNCHANGED notSched

disconnect_feed(i) ==
  /\ sched.feeds[i].is_connected
  /\ sched' = [sched EXCEPT !.feeds[i].is_connected = FALSE,
                            !.feeds[i].deleted = TRUE]
  /\ UNCHANGED <<provider, events, conn, now, poll, syncVars, oauthVars>>
  /\ UNCHANGED notSched

\* ---------------------------------------------------------- adapter fetches
MaxPages == 2
MaxPasses == 2

TooManyRequests == 429
Gone == 410
DefaultRetryAfter == 60

\* the messages of the ValueErrors the adapters and the JSON decoder raise
GoogleExpired == "Sync token expired, full sync required"
GoogleFailed == "Failed to get Google calendar events"
InvalidDelta == "INVALID_DELTA_TOKEN"
RateLimited == "Rate limited. Retry after"
GraphError == "Graph API error"
JsonError == "Expecting value"
NoRetryAfter == 0
NoError == [text |-> "", retry_after |-> NoRetryAfter]

\* an HTTP answer of the provider to the n-th request of a call. A page holds
\* the n-th event or nothing; link: a next page follows, the page is the last
\* and carries the new cursor (or none), or the body has neither link.
\* json: the body of an error answer is a JSON document or not
PageItems(n) ==
  {<<>>} \cup (IF n <= Len(PidOrder)
               THEN {<<[id |-> PidOrder[n], kind |-> "live"]>>} ELSE {})
PageAnswers(n, sent) ==
  [status : {Ok}, json : {TRUE}, items : PageItems(n),
   link : {"last"} \cup (IF n < MaxPages THEN {"next"} ELSE {}),
   token : (Tokens \ {sent}) \cup {NoTok}, retry_after : {NoRetryAfter}]
  \cup [status : {ServerError, Gone}, json : BOOLEAN, items : {<<>>},
        link : {"none"}, token : {NoTok}, retry_after : {NoRetryAfter}]
  \cup [status : {TooManyRequests}, json : BOOLEAN, items : {<<>>},
        link : {"none"}, token : {NoTok}, retry_after : {NoRetryAfter, 30}]

Raise(text, retry_after) ==
  [kind |-> "raise", error |-> [text |-> text, retry_after |-> retry_after],
   items |-> <<>>, token |-> NoTok]

\* the body of an answer read as a page: an error document has no "value" and
\* no link
Page(a) ==
  IF a.link = "next" THEN [kind |-> "more", error |-> NoError, items |-> a.items,
                           token |-> NoTok]
  ELSE [kind |-> "return", error |-> NoError, items |-> a.items,
        token |-> IF a.link = "last" THEN a.token ELSE NoTok]

\* GoogleCalendarClient.get_events: execute() raises HttpError for an answer
\* that is no success
google_request(a) ==
  IF a.status # Ok
  THEN IF a.status = Gone THEN Raise(GoogleExpired, NoRetryAfter)
       ELSE Raise(GoogleFailed, NoRetryAfter)
  ELSE Page(a)

\* MicrosoftCalendarClient._make_graph_request
make_graph_request(a) ==
  IF a.status = TooManyRequests
  THEN Raise(RateLimited, IF a.retry_after = NoRetryAfter THEN DefaultRetryAfter
                          ELSE a.retry_after)
  ELSE IF a.status = Gone THEN Raise(InvalidDelta, NoRetryAfter)
  ELSE IF a.status >= 400 THEN Raise(GraphError, NoRetryAfter)
  ELSE Page(a)

\* response.json() of a bare client.get
response_json(a) ==
  IF a.json THEN Page(a) ELSE Raise(JsonError, NoRetryAfter)

\* MicrosoftCalendarClient.get_delta_events: the request for the n-th page
microsoft_request(first, sent, a) ==
  IF first /\ sent = NoTok THEN make_graph_request(a)
  ELSE IF first
  THEN IF a.status = Gone THEN Raise(InvalidDelta, NoRetryAfter)
       ELSE response_json(a)
  ELSE response_json(a)

\* a pass that starts over after any error of the first call
is_any_error(path, text) == TRUE

\* sync.py 100-101, 246-247: the test of the except clause
is_cursor_invalid(path, text) ==
  IF path = "google" THEN text = GoogleExpired  \* "sync required" in str(e).lower()
  ELSE text = InvalidDelta

NoCall == [sent |-> NoTok, statuses |-> <<>>, raised |-> FALSE, error |-> NoError]
NoFetch ==
  [pc |-> "idle", passes |-> 0, before |-> NoTok, batch |-> <<>>,
   calls |-> <<>>, result |-> "none", error |-> NoError]

\* the call in progress
CurrentCall == IF fetch.calls = <<>> THEN NoCall ELSE fetch.calls[Len(fetch.calls)]

\* sync_google_events / sync_microsoft_events up to the first request
fetch_start(force_full_sync) ==
  /\ fetch.pc = "idle"
  /\ ~conn.deleted
  /\ fetch.passes < MaxPasses
  /\ fetch' = [NoFetch EXCEPT !.pc = "call1", !.passes = fetch.passes + 1,
                 !.before = conn.sync_token,
                 !.calls = <<[NoCall EXCEPT !.sent =
                                cursor_to_send(force_full_sync, conn.sync_token)]>>]
  /\ UNCHANGED <<provider, events, conn, now, poll, syncVars, oauthVars>>
  /\ UNCHANGED notFetch

\* DELETE /calendars/{connection_id}: get_calendar_connection finds only a
\* connection that is not deleted; the handler marks the connection, all of
\* its event rows and its webhook subscriptions and commits. It calls no
\* provider and writes no other column of the connection
disconnect_synced_calendar ==
  /\ fetch.pc = "idle"
  /\ ~conn.deleted
  /\ conn' = [conn EXCEPT !.is_connected = FALSE, !.deleted = TRUE]
  /\ events' = [pid \in Pids |->
                  [i \in 1 .. Len(events[pid]) |->
                     [events[pid][i] EXCEPT !.deleted = TRUE]]]
  /\ sub' = [sub EXCEPT !.is_active = FALSE]
  /\ remote' = [remote EXCEPT !.phase = "disconnected"]
  /\ UNCHANGED <<provider, now, poll, proc, hist, notif, oauthVars>>
  /\ UNCHANGED notRemote

\* the provider answers the request the pass waits for
fetch_answer(a) ==
  /\ fetch.pc \in {"call1", "call2"}
  /\ LET k == Len(fetch.calls)
         call == fetch.calls[k]
         first == call.statuses = <<>>
         out == IF provider = "google" THEN google_request(a)
                ELSE microsoft_request(first, call.sent, a)
         seen == [fetch EXCEPT !.calls[k].statuses = Append(@, a.status),
                               !.batch = @ \o out.items]
         fallback == fetch.pc = "call2"
         resp == [kind |-> "ok", batch |-> seen.batch, next |-> out.token]
         S == process_events(provider, NewSession(events), seen.batch)
     IN CASE out.kind = "more" ->
               /\ fetch' = seen
               /\ UNCHANGED <<events, conn, hist>>
          [] out.kind = "return" ->
               /\ process_and_commit(provider, fetch.calls[1].sent, fallback, resp)
               /\ fetch' = [seen EXCEPT !.pc = "idle",
                              !.result =
                                 IF unique_calendar_provider_event(Flushed(S.rows, S.new))
                                 THEN "ok" ELSE "integrity"]
          [] out.kind = "raise" /\ ~fallback
             /\ is_cursor_invalid(provider, out.error.text) ->
               /\ fetch' = [seen EXCEPT !.pc = "call2", !.batch = <<>>,
                              !.calls = Append(
                                 [seen.calls EXCEPT ![k].raised = TRUE,
                                                    ![k].error = out.error],
                                 NoCall)]
               /\ UNCHANGED <<events, conn, hist>>
          [] OTHER ->
               /\ pass_raises(provider, fetch.calls[1].sent, fallback)
               /\ fetch' = [seen EXCEPT !.pc = "idle", !.result = "raised",
                              !.error = out.error, !.calls[k].raised = TRUE,
                              !.calls[k].error = out.error]
  /\ UNCHANGED <<provider, now, poll, sub, proc, notif, oauthVars>>
  /\ UNCHANGED notFetch

\* ----------------------------------------------------------- shared session
MaxRequests == 2

\* the callers of a pass and the session they hand to it
Handlers == {"sync_calendar", "sync_all_calendars", "handle_microsoft_webhook",
             "handle_google_webhook"}

\* what the caller does once the pass has raised: sync_all_calendars catches,
\* goes on with the next connection and commits at the end (router.py
\* 285-289); handle_microsoft_webhook catches in
\* _process_microsoft_notification, adds an audit row and commits
\* (webhook.py 107-123, 53); sync_calendar answers 500 and
\* handle_google_webhook skips its commit, get_db / db.close() drop the session
commits_after_failure(handler) ==
  handler \in {"sync_all_calendars", "handle_microsoft_webhook"}

NoSess ==
  [pc |-> "closed", requests |-> 0, handler |-> "none", failed |-> FALSE,
   before |-> NoRows, cursor |-> NoTok, batch |-> <<>>, fail_at |-> 0,
   pending |-> NewSession(NoRows), stats |-> ZeroStats]

\* the handlers a connection of this provider is synced by
HandlersOf(prov) ==
  Handlers \ (IF prov = "google" THEN {"handle_microsoft_webhook"}
              ELSE {"handle_google_webhook"})

\* a request opens a session and runs the pass of the connection in it. The
\* fetch returns (batch, next); the loop over the events raises at the event
\* fail_at (0: at none), with the writes of the events before it pending
shared_pass(handler, resp, fail_at) ==
  /\ sess.pc = "closed"
  /\ sess.requests < MaxRequests
  /\ handler \in HandlersOf(provider)
  /\ fail_at <= Len(resp.batch)
  /\ LET done == IF fail_at = 0 THEN resp.batch
                 ELSE SubSeq(resp.batch, 1, fail_at - 1)
         S == process_events(provider, NewSession(events), done)
         rows == Flushed(S.rows, S.new)
         started == [NoSess EXCEPT !.requests = sess.requests + 1,
                                   !.handler = handler, !.before = events,
                                   !.cursor = conn.sync_token,
                                   !.batch = resp.batch, !.fail_at = fail_at]
     IN IF fail_at = 0 /\ unique_calendar_provider_event(rows)
        THEN \* sync.py 126-130: cursor, last_synced_at, db.commit()
             /\ events' = rows
             /\ conn' = [conn EXCEPT !.sync_token = IF resp.next # NoTok
                                                    THEN resp.next ELSE @,
                                     !.last_synced_at = now]
             /\ sess' = [started EXCEPT !.stats = S.stats]
        ELSE IF fail_at = 0
        THEN \* IntegrityError at db.commit(): the transaction is rolled back
             /\ sess' = [started EXCEPT !.failed = TRUE]
             /\ UNCHANGED <<events, conn>>
        ELSE \* sync.py 135-137: logged and re-raised, nothing rolled back
             /\ sess' = [started EXCEPT !.failed = TRUE,
                           !.pc = IF commits_after_failure(handler)
                                  THEN "open" ELSE "closed",
                           !.pending = S]
             /\ UNCHANGED <<events, conn>>
  /\ UNCHANGED <<provider, now, poll, syncVars, oauthVars>>
  /\ UNCHANGED notSess

\* the db.commit() of the caller that follows a pass that raised
later_commit ==
  /\ sess.pc = "open"
  /\ LET rows == Flushed(sess.pending.rows, sess.pending.new)
     IN IF unique_calendar_provider_event(rows)
        THEN events' = rows
        ELSE events' = events
  /\ sess' = [sess EXCEPT !.pc = "closed"]
  /\ UNCHANGED <<provider, conn, now, poll, syncVars, oauthVars>>
  /\ UNCHANGED notSess

\* -------------------------------------------------- syncing without webhook
NoPasses == [sid \in SubIds |-> "none"]

\* jobs.py 46-76: start_scheduler registers sync_ics_calendars,
\* renew_webhook_subscriptions and the two cleanups; no job runs
\* sync_calendar_events for an OAuth connection.
\* POST /calendars/{id}/sync and POST /sync-all, the callers of
\* sync_calendar_events besides the webhook handlers: the user asks for a pass
\* of the connection. sync_calendar_events runs the pass and returns its
\* counts; it reads and writes no WebhookSubscription row
sync_calendar(sid) ==
  /\ subs[sid].connected
  /\ passes' = [passes EXCEPT ![sid] = IF subs[sid].is_active THEN "active"
                                       ELSE "inactive"]
  /\ UNCHANGED <<provider, events, conn, now, poll, syncVars, oauthVars>>
  /\ UNCHANGED notPass

\* ----------------------------------------------------------- OAuth sessions
\* session ids (secrets.token_urlsafe) and the users of the service; the
\* connections table of the model holds the rows of the first user
SessionIds == {"k1", "k2"}
UserIds == {"u1", "u2"}
NoSession == [user_id |-> "none", provider |-> "none"]
NoSessions == [k \in SessionIds |-> NoSession]
NoSelection == [seq |-> 0, endpoint |-> "none", caller |-> "none",
                code |-> "none", outcome |-> "none"]

\* _create_oauth_session at the end of a callback
create_oauth_session(k, user, prov) ==
  /\ oauth_sessions[k] = NoSession
  /\ oauth_sessions' = [oauth_sessions EXCEPT ![k] = [user_id |-> user,
                                                      provider |-> prov]]
  /\ UNCHANGED selection
  /\ UNCHANGED <<provider, events, conn, now, poll, syncVars, oauthVars>>
  /\ UNCHANGED notSelect

\* _consume_oauth_session: _oauth_sessions.pop(session_id, None)
consume_oauth_session(sessions, k) == [sessions EXCEPT ![k] = NoSession]

\* the checks of a select endpoint on the session it has taken
select_outcome(endpoint, caller, session) ==
  IF session = NoSession THEN "not_found"
  ELSE IF session.user_id # caller THEN "forbidden"
  ELSE IF session.provider # endpoint THEN "invalid_provider"
  ELSE "connected"

\* POST /oauth/{google,microsoft}/select with body.code = k
select_with_session(endpoint, caller, k, selected) ==
  LET session == oauth_sessions[k]
      outcome == select_outcome(endpoint, caller, session)
      rows == select_all(connections, endpoint, ListedCalendars(endpoint),
                         "a1", selected)
  IN /\ oauth_sessions' = consume_oauth_session(oauth_sessions, k)
     /\ selection' = [seq |-> 1 - selection.seq, endpoint |-> endpoint,
                      caller |-> caller, code |-> k, outcome |-> outcome]
     /\ IF outcome = "connected" /\ caller = "u1" /\ unique_user_calendar(rows)
        THEN connections' = rows
        ELSE connections' = connections
     /\ UNCHANGED request
     /\ UNCHANGED <<provider, events, conn, now, poll, syncVars, oauthVars>>
     /\ UNCHANGED <<localVars, authVars, renewVars, recVars, freeVars,
                    schedVars, fetchVars, sessVars, passVars, feedVars,
                    remoteVars>>

post_google_select(caller, k, selected) ==
  select_with_session("google", caller, k, selected)

post_microsoft_select(caller, k, selected) ==
  select_with_session("microsoft", caller, k, selected)

\* ------------------------------------------------------- feeds without UID
\* a VEVENT block may carry no UID
NoUid == "none"
UidBlocks == [uid : Pids \cup {NoUid}, kind : {"event", "nodtstart"}]
UidFeeds == UNION {[1 .. n -> UidBlocks] : n \in 0 .. MaxBlocks}

NoFeedLog == [ok |-> FALSE, content |-> <<>>, before |-> NoRows,
              repeat |-> FALSE]

\* event_id = str(component.get("uid", uuid4())): a block without UID gets an
\* id that no row and no other block carries
RECURSIVE event_ids(_, _)
event_ids(feed, used) ==
  IF feed = <<>> THEN <<>>
  ELSE IF Head(feed).uid = NoUid
  THEN LET id == CHOOSE pid \in Pids \ used : TRUE
       IN <<[Head(feed) EXCEPT !.uid = id]>>
            \o event_ids(Tail(feed), used \cup {id})
  ELSE <<Head(feed)>> \o event_ids(Tail(feed), used)

\* the ids in use: those of the rows of the connection and the UIDs of the feed
UsedIds(rows, feed) ==
  {pid \in Pids : rows[pid] # <<>>}
    \cup {feed[i].uid : i \in {j \in DOMAIN feed : feed[j].uid # NoUid}}

\* sync_ics_events answered with 200 and the content `feed`
poll_feed(feed) ==
  /\ Cardinality({i \in DOMAIN feed : feed[i].uid = NoUid})
       <= Cardinality(Pids \ UsedIds(events, feed))
  /\ LET c1 == [conn EXCEPT !.ics_etag = NoTok, !.ics_last_modified = NoTok]
         W == walk(NewIcsSession(events),
                   event_ids(feed, UsedIds(events, feed)))
         S == mark_missing(W)
         rows == Flushed(S.rows, S.new)
     IN IF ~unique_calendar_provider_event(rows)
        THEN /\ ics_raises("integrity", rows, c1)
             /\ feedlog' = NoFeedLog
        ELSE /\ events' = rows
             /\ conn' = [c1 EXCEPT !.last_synced_at = now]
             /\ poll' = [kind |-> "ok", cause |-> "none", seen |-> S.seen,
                         stats |-> S.stats]
             /\ feedlog' = [ok |-> TRUE, content |-> feed, before |-> events,
                            repeat |-> feedlog.ok /\ feedlog.content = feed]
  /\ UNCHANGED <<provider, now, syncVars, oauthVars>>
  /\ UNCHANGED notFeed

\* ------------------------------------------------- disconnect and reconnect
MaxChanges == 2

\* phase: connected, disconnected, reconnected, resynced
NoRemote == [live |-> {}, changed |-> {}, changes |-> 0, phase |-> "connected"]

\* the user or somebody else creates, changes or cancels an event at the
\* provider
remote_change(pid, cancel) ==
  /\ remote.changes < MaxChanges
  /\ cancel => pid \in remote.live
  /\ remote' = [remote EXCEPT
                  !.live = IF cancel THEN @ \ {pid} ELSE @ \cup {pid},
                  !.changed = @ \cup {pid},
                  !.changes = @ + 1]
  /\ UNCHANGED <<provider, events, conn, now, poll, syncVars, oauthVars>>
  /\ UNCHANGED notRemote

\* what the provider lists: without cursor every uncancelled event of the
\* window, with the cursor the events changed since it was handed out
remote_listing(path, sent) ==
  Listing([pid \in Pids |->
             IF sent = NoTok
             THEN IF pid \in remote.live THEN "live" ELSE "absent"
             ELSE IF pid \notin remote.changed THEN "absent"
             ELSE IF pid \in remote.live THEN "live"
             ELSE IF path = "google" THEN "cancelled" ELSE "removed"], 1)

\* a cursor the provider hands out differs from the one the request sent
next_cursor(sent) == IF sent = "t1" THEN "t2" ELSE "t1"

\* sync_calendar_events for the connection, the provider answering without
\* failure: sync_google_events / sync_microsoft_events from start to commit
sync_with_provider(force_full_sync) ==
  /\ ~conn.deleted
  /\ LET sent == cursor_to_send(force_full_sync, conn.sync_token)
         S == process_events(provider, NewSession(events),
                             remote_listing(provider, sent))
     IN /\ events' = Flushed(S.rows, S.new)
        /\ conn' = [conn EXCEPT !.sync_token = next_cursor(sent),
                                !.last_synced_at = now]
  /\ remote' = [remote EXCEPT !.changed = {},
                  !.phase = IF @ = "reconnected" THEN "resynced" ELSE @]
  /\ UNCHANGED <<provider, now, poll, syncVars, oauthVars>>
  /\ UNCHANGED notRemote

\* the select step of the OAuth flow names the calendar of the connection:
\* the existing row gets new tokens, is_connected = True, deleted_at = None
reconnect_calendar ==
  /\ conn.deleted
  /\ conn' = [conn EXCEPT !.is_connected = TRUE, !.deleted = FALSE]
  /\ remote' = [remote EXCEPT !.phase = "reconnected"]
  /\ UNCHANGED <<provider, events, now, poll, syncVars, oauthVars>>
  /\ UNCHANGED notRemote

\* ------------------------------------------------------------ specification
NoHist == [on |-> TRUE, path |-> "none", sent |-> NoTok, fallback |-> FALSE,
           mode |-> "none", applied |-> FALSE, batch |-> <<>>, gave |-> FALSE, ok |-> FALSE, repeat |-> FALSE]
NoNotif == [on |-> TRUE, handler |-> "none", found |-> FALSE, match |-> FALSE,
            started |-> FALSE]
NoSub == [exists |-> FALSE, is_active |-> FALSE, client_state |-> NoState]
NewConn == [sync_token |-> NoTok, last_synced_at |-> 0,
            ics_etag |-> NoTok, ics_last_modified |-> NoTok,
            is_connected |-> TRUE, deleted |-> FALSE]

\* the tables and histories a specification does not use, the webhook
\* subscriptions aside
OtherInit ==
  /\ local = <<>>
  /\ created = "none"
  /\ connections = NoConnections
  /\ request = NoRequest
  /\ auth = NoAuth
  /\ free = NoFree
  /\ sched = NoSched
  /\ fetch = NoFetch
  /\ sess = NoSess
  /\ passes = NoPasses
  /\ oauth_sessions = NoSessions
  /\ selection = NoSelection
  /\ feedlog = NoFeedLog
  /\ remote = NoRemote

RestInit ==
  /\ OtherInit
  /\ subs = [sid \in SubIds |-> NoSubscription]
  /\ job = NoJob
  /\ rec = NoRec

\* a user with one freshly connected OAuth calendar
InitConnection ==
  /\ provider \in {"google", "microsoft"}
  /\ events = NoRows
  /\ conn = NewConn
  /\ sub = NoSub
  /\ proc = [p \in Procs |-> Idle]
  /\ now = 1
  /\ poll = NoPoll
  /\ oauth_states = [t \in StateToks |-> NoStateRow]
  /\ callback = NoCallback
  /\ RestInit

\* Spec: the sync passes of the connection, one request at a time, each pass
\* recorded in hist
SyncProcs == {"p1"}

Init ==
  /\ InitConnection
  /\ hist = NoHist
  /\ notif = [NoNotif EXCEPT !.on = FALSE]

Next ==
  \/ \E f \in BOOLEAN : sync_calendar_google(f)
  \/ \E p \in SyncProcs, f \in BOOLEAN : sync_calendar_microsoft(p, f)
  \/ \E p \in SyncProcs : MsFetchReturn(p)
  \/ \E p \in SyncProcs : MsFallbackReturn(p)

Spec == Init /\ [][Next]_vars

\* SpecTrig: the triggers of a pass (manual sync, webhook notifications),
\* each notification recorded in notif
InitTrig ==
  /\ InitConnection
  /\ hist = [NoHist EXCEPT !.on = FALSE]
  /\ notif = NoNotif

NextTrig ==
  \/ \E f \in BOOLEAN : sync_calendar_google(f)
  \/ \E p \in Procs, f \in BOOLEAN : sync_calendar_microsoft(p, f)
  \/ \E p \in Procs : MsFetchReturn(p)
  \/ \E p \in Procs : MsFallbackReturn(p)
  \/ create_webhook_subscription
  \/ \E p \in Procs, known \in BOOLEAN, cs \in ClientStates :
       handle_microsoft_webhook(p, known, cs)
  \/ \E known \in BOOLEAN, rs \in {"sync", "exists"}, tk \in ClientStates :
       handle_google_webhook(known, rs, tk)

SpecTrig == InitTrig /\ [][NextTrig]_vars

\* SpecIcs: a subscribed feed and its poller
InitIcs ==
  /\ provider = "ics"
  /\ events = NoRows
  /\ conn = NewConn
  /\ sub = NoSub
  /\ proc = [p \in Procs |-> Idle]
  /\ now = 1
  /\ hist = [NoHist EXCEPT !.on = FALSE]
  /\ notif = [NoNotif EXCEPT !.on = FALSE]
  /\ poll = NoPoll
  /\ oauth_states = [t \in StateToks |-> NoStateRow]
  /\ callback = NoCallback
  /\ RestInit

NextIcs ==
  \/ sync_ics_events
  \/ Tick

SpecIcs == InitIcs /\ [][NextIcs]_vars

\* SpecOAuth: the three-legged handshake up to the code exchange
InitOAuth ==
  /\ provider = "none"
  /\ events = NoRows
  /\ conn = NewConn
  /\ sub = NoSub
  /\ proc = [p \in Procs |-> Idle]
  /\ now = 0
  /\ hist = [NoHist EXCEPT !.on = FALSE]
  /\ notif = [NoNotif EXCEPT !.on = FALSE]
  /\ poll = NoPoll
  /\ oauth_states = [t \in StateToks |-> NoStateRow]
  /\ callback = NoCallback
  /\ RestInit

NextOAuth ==
  \/ \E tok \in Issuable : initiate_google_oauth(tok)
  \/ \E tok \in Issuable : initiate_microsoft_oauth(tok)
  \/ \E code \in BOOLEAN, state \in StateToks \cup {NoState},
        error \in ProviderErrors \cup {NoErr} :
       handle_google_callback(code, state, error)
  \/ \E code \in BOOLEAN, state \in StateToks \cup {NoState},
        error \in ProviderErrors \cup {NoErr} :
       handle_microsoft_callback(code, state, error)
  \/ get_tokens_return
  \/ cleanup_expired_oauth_states
  \/ Minutes

SpecOAuth == InitOAuth /\ [][NextOAuth]_vars

\* SpecRows: everything that writes CalendarEvent rows of one connection:
\* sync passes, feed polls, events created, deleted and retried by the user
InitRows ==
  /\ provider \in {"google", "microsoft", "ics"}
  /\ events = NoRows
  /\ conn = NewConn
  /\ sub = NoSub
  /\ proc = [p \in Procs |-> Idle]
  /\ now = 1
  /\ hist = [NoHist EXCEPT !.on = FALSE]
  /\ notif = [NoNotif EXCEPT !.on = FALSE]
  /\ poll = NoPoll
  /\ oauth_states = [t \in StateToks |-> NoStateRow]
  /\ callback = NoCallback
  /\ RestInit

NextRows ==
  \/ \E f \in BOOLEAN : sync_calendar_google(f)
  \/ \E p \in SyncProcs, f \in BOOLEAN : sync_calendar_microsoft(p, f)
  \/ \E p \in SyncProcs : MsFetchReturn(p)
  \/ \E p \in SyncProcs : MsFallbackReturn(p)
  \/ sync_ics_events
  \/ create_event_google
  \/ \E p \in CreateProcs : create_event_microsoft(p)
  \/ \E p \in CreateProcs : CreateReturn(p)
  \/ \E target \in Targets : delete_event(target)
  \/ retry_sync_event

SpecRows == InitRows /\ [][NextRows]_vars

\* SpecConn: the connections of one user: calendar selections after the OAuth
\* handshake, feed connects, disconnects
InitConn == InitOAuth

NextConn ==
  \/ \E available \in SUBSET ListedCalendars("google"), token \in AccessTokens,
        selected \in Selections :
       select_google_calendars(available, token, selected)
  \/ \E available \in SUBSET ListedCalendars("microsoft"), token \in AccessTokens,
        selected \in Selections :
       select_microsoft_calendars(available, token, selected)
  \/ \E url \in FeedUrls, iv \in Ivs : connect_ics_calendar(url, iv)
  \/ \E key \in ConnKeys : disconnect_calendar(key)

SpecConn == InitConn /\ [][NextConn]_vars

\* SpecAuth: the tokens of one OAuth connection over its passes
InitAuth ==
  /\ InitConnection
  /\ hist = [NoHist EXCEPT !.on = FALSE]
  /\ notif = [NoNotif EXCEPT !.on = FALSE]

NextAuth ==
  \/ sync_tokens
  \/ token_expires
  \/ token_revoked
  \/ grant_revoked

SpecAuth == InitAuth /\ [][NextAuth]_vars

\* SpecRenew: the webhook subscriptions of the user and the renewal job
InitRenew ==
  /\ provider = "none"
  /\ events = NoRows
  /\ conn = NewConn
  /\ sub = NoSub
  /\ proc = [p \in Procs |-> Idle]
  /\ now = 0
  /\ hist = [NoHist EXCEPT !.on = FALSE]
  /\ notif = [NoNotif EXCEPT !.on = FALSE]
  /\ poll = NoPoll
  /\ oauth_states = [t \in StateToks |-> NoStateRow]
  /\ callback = NoCallback
  /\ OtherInit
  /\ rec = NoRec
  /\ subs \in [SubIds -> {NoSubscription} \cup
                           [provider : OAuthProviders, is_active : {TRUE},
                            expiration_datetime : RemainingHalfDays,
                            connected : {TRUE}]]
  /\ job = NoJob

NextRenew ==
  \/ renew_webhook_subscriptions
  \/ \E answer \in RenewAnswers : renew_one(answer)
  \/ renew_commit
  \/ \E sid \in SubIds, prov \in OAuthProviders : subscribe(sid, prov)
  \/ \E sid \in SubIds : disconnect_subscribed(sid)
  \/ HalfDay

SpecRenew == InitRenew /\ [][NextRenew]_vars

\* SpecRec: the recurrence expander on a series, a single event and a window
InitRec ==
  /\ provider = "none"
  /\ events = NoRows
  /\ conn = NewConn
  /\ sub = NoSub
  /\ proc = [p \in Procs |-> Idle]
  /\ now = 0
  /\ hist = [NoHist EXCEPT !.on = FALSE]
  /\ notif = [NoNotif EXCEPT !.on = FALSE]
  /\ poll = NoPoll
  /\ oauth_states = [t \in StateToks |-> NoStateRow]
  /\ callback = NoCallback
  /\ OtherInit
  /\ subs = [sid \in SubIds |-> NoSubscription]
  /\ job = NoJob
  /\ rec \in [event : Series, other : Singles, range_start : RangeStarts,
              range_end : RangeEnds, expansion : {NoOutcome},
              listing : {NoOutcome}]

NextRec ==
  \/ expand
  \/ list_events

SpecRec == InitRec /\ [][NextRec]_vars

\* a free/busy query over the events of two users
InitFree ==
  /\ provider = "none"
  /\ events = NoRows
  /\ conn = NewConn
  /\ sub = NoSub
  /\ proc = [p \in Procs |-> Idle]
  /\ now = 0
  /\ hist = [NoHist EXCEPT !.on = FALSE]
  /\ notif = [NoNotif EXCEPT !.on = FALSE]
  /\ poll = NoPoll
  /\ oauth_states = [t \in StateToks |-> NoStateRow]
  /\ callback = NoCallback
  /\ local = <<>>
  /\ created = "none"
  /\ connections = NoConnections
  /\ request = NoRequest
  /\ auth = NoAuth
  /\ subs = [sid \in SubIds |-> NoSubscription]
  /\ job = NoJob
  /\ rec = NoRec
  /\ sched = NoSched
  /\ fetch = NoFetch
  /\ sess = NoSess
  /\ passes = NoPasses
  /\ oauth_sessions = NoSessions
  /\ selection = NoSelection
  /\ feedlog = NoFeedLog
  /\ remote = NoRemote
  /\ \E e1 \in CalendarEvents(Users[1].email),
        e2 \in CalendarEvents(Users[2].email),
        cu \in {{Users[1].email, Users[2].email}, {Users[1].email}},
        ids \in {{1, 2}, {2}}, s \in QueryStarts, e \in QueryEnds,
        calc \in Calculators :
       free = [NoFree EXCEPT !.db = [calendar_users |-> cu,
                                     events |-> <<e1, e2>>],
                             !.user_ids = ids, !.start_date = s,
                             !.end_date = e, !.calc = calc, !.pc = "query"]

NextFree ==
  \/ busy_blocks_request
  \/ free_slots_request

SpecFree == InitFree /\ [][NextFree]_vars

\* the scheduler and three feed connections
InitJobs ==
  /\ provider = "none"
  /\ events = NoRows
  /\ conn = NewConn
  /\ sub = NoSub
  /\ proc = [p \in Procs |-> Idle]
  /\ now = 0
  /\ hist = [NoHist EXCEPT !.on = FALSE]
  /\ notif = [NoNotif EXCEPT !.on = FALSE]
  /\ poll = NoPoll
  /\ oauth_states = [t \in StateToks |-> NoStateRow]
  /\ callback = NoCallback
  /\ local = <<>>
  /\ created = "none"
  /\ connections = NoConnections
  /\ request = NoRequest
  /\ auth = NoAuth
  /\ subs = [sid \in SubIds |-> NoSubscription]
  /\ job = NoJob
  /\ rec = NoRec
  /\ free = NoFree
  /\ sched = NoSched
  /\ fetch = NoFetch
  /\ sess = NoSess
  /\ passes = NoPasses
  /\ oauth_sessions = NoSessions
  /\ selection = NoSelection
  /\ feedlog = NoFeedLog
  /\ remote = NoRemote

NextJobs ==
  \/ \E query_raises \in BOOLEAN : sync_ics_calendars(query_raises)
  \/ \E answer \in IcsAnswers : sync_ics_connection(answer)
  \/ \E name \in OtherJobs, raises \in BOOLEAN : background_job(name, raises)
  \/ \E i \in IcsIds : connect_feed(i)
  \/ \E i \in IcsIds : disconnect_feed(i)

SpecJobs == InitJobs /\ [][NextJobs]_vars

\* the passes of one OAuth connection, request by request
InitFetch ==
  /\ provider \in {"google", "microsoft"}
  /\ events = NoRows
  /\ conn \in {NewConn, [NewConn EXCEPT !.sync_token = "t1"]}
  /\ sub = NoSub
  /\ proc = [p \in Procs |-> Idle]
  /\ now = 1
  /\ hist = [NoHist EXCEPT !.on = FALSE]
  /\ notif = [NoNotif EXCEPT !.on = FALSE]
  /\ poll = NoPoll
  /\ oauth_states = [t \in StateToks |-> NoStateRow]
  /\ callback = NoCallback
  /\ local = <<>>
  /\ created = "none"
  /\ connections = NoConnections
  /\ request = NoRequest
  /\ auth = NoAuth
  /\ subs = [sid \in SubIds |-> NoSubscription]
  /\ job = NoJob
  /\ rec = NoRec
  /\ free = NoFree
  /\ sched = NoSched
  /\ fetch = NoFetch
  /\ sess = NoSess
  /\ passes = NoPasses
  /\ oauth_sessions = NoSessions
  /\ selection = NoSelection
  /\ feedlog = NoFeedLog
  /\ remote = NoRemote

NextFetch ==
  \/ \E force_full_sync \in BOOLEAN : fetch_start(force_full_sync)
  \/ \E a \in PageAnswers(Len(CurrentCall.statuses) + 1, CurrentCall.sent) :
       fetch_answer(a)
  \/ disconnect_synced_calendar

SpecFetch == InitFetch /\ [][NextFetch]_vars

\* requests that run the pass of one OAuth connection in their session
InitShared ==
  /\ provider \in {"google", "microsoft"}
  /\ events = NoRows
  /\ conn = NewConn
  /\ sub = NoSub
  /\ proc = [p \in Procs |-> Idle]
  /\ now = 1
  /\ hist = [NoHist EXCEPT !.on = FALSE]
  /\ notif = [NoNotif EXCEPT !.on = FALSE]
  /\ poll = NoPoll
  /\ oauth_states = [t \in StateToks |-> NoStateRow]
  /\ callback = NoCallback
  /\ local = <<>>
  /\ created = "none"
  /\ connections = NoConnections
  /\ request = NoRequest
  /\ auth = NoAuth
  /\ subs = [sid \in SubIds |-> NoSubscription]
  /\ job = NoJob
  /\ rec = NoRec
  /\ free = NoFree
  /\ sched = NoSched
  /\ fetch = NoFetch
  /\ sess = NoSess
  /\ passes = NoPasses
  /\ oauth_sessions = NoSessions
  /\ selection = NoSelection
  /\ feedlog = NoFeedLog
  /\ remote = NoRemote

NextShared ==
  \/ \E handler \in Handlers, resp \in OkResponses(provider, conn.sync_token),
        fail_at \in 0 .. Len(PidOrder) : shared_pass(handler, resp, fail_at)
  \/ later_commit

SpecShared == InitShared /\ [][NextShared]_vars

\* the scheduler with its jobs, and the user who may ask for a sync
InitPoll ==
  /\ provider = "none"
  /\ events = NoRows
  /\ conn = NewConn
  /\ sub = NoSub
  /\ proc = [p \in Procs |-> Idle]
  /\ now = 0
  /\ hist = [NoHist EXCEPT !.on = FALSE]
  /\ notif = [NoNotif EXCEPT !.on = FALSE]
  /\ poll = NoPoll
  /\ oauth_states = [t \in StateToks |-> NoStateRow]
  /\ callback = NoCallback
  /\ local = <<>>
  /\ created = "none"
  /\ connections = NoConnections
  /\ request = NoRequest
  /\ auth = NoAuth
  /\ subs \in [SubIds -> {NoSubscription} \cup
                           [provider : OAuthProviders, is_active : {TRUE},
                            expiration_datetime : RemainingHalfDays,
                            connected : {TRUE}]]
  /\ job = NoJob
  /\ rec = NoRec
  /\ free = NoFree
  /\ sched = [NoSched EXCEPT !.feeds["i1"].is_connected = TRUE]
  /\ fetch = NoFetch
  /\ sess = NoSess
  /\ passes = NoPasses
  /\ oauth_sessions = NoSessions
  /\ selection = NoSelection
  /\ feedlog = NoFeedLog
  /\ remote = NoRemote

NextPoll ==
  \/ renew_webhook_subscriptions
  \/ \E answer \in RenewAnswers : renew_one(answer)
  \/ renew_commit
  \/ \E query_raises \in BOOLEAN : sync_ics_calendars(query_raises)
  \/ \E answer \in IcsAnswers : sync_ics_connection(answer)
  \/ HalfDay
  \/ \E sid \in SubIds : sync_calendar(sid)

\* the interval triggers of the scheduler fire again and again and a job that
\* has started runs to its end; nothing makes the user ask for a sync
SpecPoll ==
  /\ InitPoll
  /\ [][NextPoll]_vars
  /\ WF_vars(renew_webhook_subscriptions)
  /\ WF_vars(\E answer \in RenewAnswers : renew_one(answer))
  /\ WF_vars(renew_commit)
  /\ WF_vars(\E query_raises \in BOOLEAN : sync_ics_calendars(query_raises))
  /\ WF_vars(\E answer \in IcsAnswers : sync_ics_connection(answer))

\* find_free_slots called with any list of busy blocks
InitSlots ==
  /\ provider = "none"
  /\ events = NoRows
  /\ conn = NewConn
  /\ sub = NoSub
  /\ proc = [p \in Procs |-> Idle]
  /\ now = 0
  /\ hist = [NoHist EXCEPT !.on = FALSE]
  /\ notif = [NoNotif EXCEPT !.on = FALSE]
  /\ poll = NoPoll
  /\ oauth_states = [t \in StateToks |-> NoStateRow]
  /\ callback = NoCallback
  /\ local = <<>>
  /\ created = "none"
  /\ connections = NoConnections
  /\ request = NoRequest
  /\ auth = NoAuth
  /\ subs = [sid \in SubIds |-> NoSubscription]
  /\ job = NoJob
  /\ rec = NoRec
  /\ sched = NoSched
  /\ fetch = NoFetch
  /\ sess = NoSess
  /\ passes = NoPasses
  /\ oauth_sessions = NoSessions
  /\ selection = NoSelection
  /\ feedlog = NoFeedLog
  /\ remote = NoRemote
  /\ \E blocks \in BusyLists, s \in QueryStarts, e \in QueryEnds,
        calc \in Calculators :
       free = [NoFree EXCEPT !.start_date = s, !.end_date = e, !.calc = calc,
                             !.blocks = blocks, !.pc = "blocks"]

NextSlots == free_slots_request

SpecSlots == InitSlots /\ [][NextSlots]_vars

\* the calendar selections that follow the OAuth callbacks of two users
InitSelect ==
  /\ provider = "none"
  /\ events = NoRows
  /\ conn = NewConn
  /\ sub = NoSub
  /\ proc = [p \in Procs |-> Idle]
  /\ now = 0
  /\ hist = [NoHist EXCEPT !.on = FALSE]
  /\ notif = [NoNotif EXCEPT !.on = FALSE]
  /\ poll = NoPoll
  /\ oauth_states = [t \in StateToks |-> NoStateRow]
  /\ callback = NoCallback
  /\ local = <<>>
  /\ created = "none"
  /\ connections = NoConnections
  /\ request = NoRequest
  /\ auth = NoAuth
  /\ subs = [sid \in SubIds |-> NoSubscription]
  /\ job = NoJob
  /\ rec = NoRec
  /\ free = NoFree
  /\ sched = NoSched
  /\ fetch = NoFetch
  /\ sess = NoSess
  /\ passes = NoPasses
  /\ oauth_sessions = NoSessions
  /\ selection = NoSelection
  /\ feedlog = NoFeedLog
  /\ remote = NoRemote

NextSelect ==
  \/ \E k \in SessionIds, user \in UserIds, prov \in OAuthProviders :
       create_oauth_session(k, user, prov)
  \/ \E caller \in UserIds, k \in SessionIds, selected \in Selections :
       post_google_select(caller, k, selected)
  \/ \E caller \in UserIds, k \in SessionIds, selected \in Selections :
       post_microsoft_select(caller, k, selected)

SpecSelect == InitSelect /\ [][NextSelect]_vars

\* the polls of one feed connection, every one answered with 200
InitFeed ==
  /\ provider = "ics"
  /\ events = NoRows
  /\ conn = NewConn
  /\ sub = NoSub
  /\ proc = [p \in Procs |-> Idle]
  /\ now = 0
  /\ hist = [NoHist EXCEPT !.on = FALSE]
  /\ notif = [NoNotif EXCEPT !.on = FALSE]
  /\ poll = NoPoll
  /\ oauth_states = [t \in StateToks |-> NoStateRow]
  /\ callback = NoCallback
  /\ local = <<>>
  /\ created = "none"
  /\ connections = NoConnections
  /\ request = NoRequest
  /\ auth = NoAuth
  /\ subs = [sid \in SubIds |-> NoSubscription]
  /\ job = NoJob
  /\ rec = NoRec
  /\ free = NoFree
  /\ sched = NoSched
  /\ fetch = NoFetch
  /\ sess = NoSess
  /\ passes = NoPasses
  /\ oauth_sessions = NoSessions
  /\ selection = NoSelection
  /\ feedlog = NoFeedLog
  /\ remote = NoRemote

NextFeed == \E feed \in UidFeeds : poll_feed(feed)

SpecFeed == InitFeed /\ [][NextFeed]_vars

\* one OAuth connection and the calendar behind it at the provider
InitReconnect ==
  /\ provider \in OAuthProviders
  /\ events = NoRows
  /\ conn = NewConn
  /\ sub = NoSub
  /\ proc = [p \in Procs |-> Idle]
  /\ now = 0
  /\ hist = [NoHist EXCEPT !.on = FALSE]
  /\ notif = [NoNotif EXCEPT !.on = FALSE]
  /\ poll = NoPoll
  /\ oauth_states = [t \in StateToks |-> NoStateRow]
  /\ callback = NoCallback
  /\ local = <<>>
  /\ created = "none"
  /\ connections = NoConnections
  /\ request = NoRequest
  /\ auth = NoAuth
  /\ subs = [sid \in SubIds |-> NoSubscription]
  /\ job = NoJob
  /\ rec = NoRec
  /\ free = NoFree
  /\ sched = NoSched
  /\ fetch = NoFetch
  /\ sess = NoSess
  /\ passes = NoPasses
  /\ oauth_sessions = NoSessions
  /\ selection = NoSelection
  /\ feedlog = NoFeedLog
  /\ remote = NoRemote

NextReconnect ==
  \/ \E pid \in Pids, cancel \in BOOLEAN : remote_change(pid, cancel)
  \/ \E force_full_sync \in BOOLEAN : sync_with_provider(force_full_sync)
  \/ disconnect_synced_calendar
  \/ reconnect_calendar

SpecReconnect == InitReconnect /\ [][NextReconnect]_vars

\* -------------------------------------------------------------- properties
NonDeleted(rows) ==
  {pid \in DOMAIN rows : \E i \in 1..Len(rows[pid]) : ~rows[pid][i].deleted}

AllDeleted(rows, pid) == \A i \in 1..Len(rows[pid]) : rows[pid][i].deleted

\* the rows an initial full sync of the batch leaves in an empty store
InitialFullSync(path, batch) ==
  LET S == process_events(path, NewSession(NoRows), batch)
  IN Flushed(S.rows, S.new)

\* C1: a pass that ran incrementally leaves every row whose provider event
\* id is not in the returned batch exactly as it was (deleted_at and
\* sync_status included).
C1_IncrementalKeepsUnmentioned ==
  [][hist'.mode = "incremental"
       => \A pid \in Pids \ BatchIds(hist'.batch) : events'[pid] = events[pid]]_vars

\* an incremental pass has committed a batch that did not mention a stored,
\* non-deleted row
C1_Witness ==
  /\ hist.mode = "incremental" /\ hist.ok /\ hist.batch # <<>>
  /\ \E pid \in Pids \ BatchIds(hist.batch) : pid \in NonDeleted(events)

\* C2: after a full pass every row whose provider event id was not
\* re-observed in the batch is soft-deleted.
C2_FullSyncPrunes ==
  (hist.mode = "full" /\ hist.ok)
    => \A pid \in Pids \ BatchIds(hist.batch) : AllDeleted(events, pid)

\* C3: after the provider refused the stored cursor and the fallback fetch
\* delivered a batch and a cursor, the pass has committed, the stored cursor
\* is not the refused one, and the non-deleted events are those an initial
\* full sync of the same batch produces.
C3_FallbackEqualsInitialFullSync ==
  (hist.fallback /\ hist.applied /\ hist.gave)
    => /\ hist.ok
       /\ conn.sync_token \in Tokens \ {hist.sent}
       /\ NonDeleted(events) = NonDeleted(InitialFullSync(hist.path, hist.batch))

\* C4: a full pass that applies the batch of the full pass before it commits
\* and leaves every row as it was: none added, none changed, none doubled.
C4_SameFullBatchTwice ==
  [][hist'.repeat
       => hist'.ok /\ events' = events /\ unique_calendar_provider_event(events')]_vars

\* the same non-empty full batch has been applied twice in succession
C4_Witness ==
  /\ hist.repeat /\ hist.ok /\ hist.batch # <<>>
  /\ \E pid \in BatchIds(hist.batch) : events[pid] # <<>>

\* C5: at most one sync pass of the connection is between its start and its
\* commit at any time.
C5_OnePassPerConnection ==
  Cardinality({p \in Procs : proc[p].pc # "idle"}) <= 1

C7_FailedFeedPassCommitsNothing ==
  [][(poll'.kind = "raised" /\ now' = now) => (events' = events /\ conn' = conn)]_vars

\* a pass over a feed with stored rows and validators has raised in a block
C7_Witness ==
  /\ poll.kind = "raised" /\ poll.cause = "block"
  /\ NonDeleted(events) # {}
  /\ conn.ics_etag # NoTok

\* C8: after a feed pass that committed, every row whose identifier is absent
\* from the feed is soft-deleted and every row whose identifier is in the feed
\* is a single non-deleted row.
C8_FeedDecidesDeletedState ==
  poll.kind = "ok"
    => \A pid \in Pids :
         events[pid] # <<>>
           => IF pid \in poll.seen
              THEN Len(events[pid]) = 1 /\ ~Head(events[pid]).deleted
              ELSE AllDeleted(events, pid)

\* C9: a pass answered 304 returns all-zero statistics, leaves every event
\* row and both cache validators as they were, and sets last_synced_at to the
\* time of the pass.
C9_NotModifiedOnlyStampsLastSynced ==
  [][(poll'.kind = "not_modified" /\ now' = now)
       => /\ poll'.stats = ZeroStats
          /\ events' = events
          /\ conn'.ics_etag = conn.ics_etag
          /\ conn'.ics_last_modified = conn.ics_last_modified
          /\ conn'.last_synced_at = now]_vars

\* a pass later than the first has been answered 304 with rows stored
C9_Witness ==
  /\ poll.kind = "not_modified"
  /\ now > 1 /\ conn.last_synced_at = now
  /\ NonDeleted(events) # {}

\* the state a callback carries is one the handler may accept: issued for its
\* provider, still stored, not consumed, less than 15 minutes old
Usable(handler, state) ==
  /\ state \in StateToks
  /\ oauth_states[state].stored
  /\ oauth_states[state].provider = handler
  /\ ~oauth_states[state].consumed
  /\ now - oauth_states[state].created_at < ExpiryMinutes

\* the step is a callback
IsCallback == callback'.seq # callback.seq

\* C10 as amended: a callback proceeds to the code exchange only with a
\* usable state and is the only one that ever does so with that state; a
\* callback that carries a code, a state and no error parameter and whose
\* state is not usable ends with invalid_state; a callback with an error
\* parameter ends with that error, which is not invalid_state.
C10_StateSingleUse ==
  [][IsCallback =>
       LET c == callback'.last
       IN /\ c.outcome = "exchange"
               => /\ Usable(c.handler, c.state)
                  /\ c.code /\ c.error = NoErr
                  /\ callback'.exchanges[c.state] = 1
          /\ (c.code /\ c.state # NoState /\ c.error = NoErr
                /\ ~Usable(c.handler, c.state))
               => c.outcome = "invalid_state"
          /\ c.error # NoErr
               => c.outcome = c.error /\ c.outcome # "invalid_state"]_vars

\* a second callback with the state arrived while the first was at the code
\* exchange and was refused
C10_Witness ==
  /\ callback.last.outcome = "invalid_state"
  /\ callback.last.state \in Issuable
  /\ oauth_states[callback.last.state].consumed
  /\ callback.exchanges[callback.last.state] = 1
  /\ callback.pending = 1

\* C10 as stated: every callback that carries a state which is consumed,
\* expired or unknown ends with invalid_state.
C10_UnusableStateEndsInvalidState ==
  [][(IsCallback /\ callback'.last.state # NoState
        /\ ~Usable(callback'.last.handler, callback'.last.state))
       => callback'.last.outcome = "invalid_state"]_vars

\* C11: whatever sync passes, feed polls, local creations, retries and
\* deletions have run, no two event rows of the connection, soft-deleted ones
\* included, carry the same provider event id
C11_UniquePair ==
  \A pid \in Pids \cup {NoPid} : Len(event_rows(events, local)[pid]) <= 1

\* a create was refused by the constraint while rows of every kind exist: a
\* synced one, a soft-deleted one and one without a provider id
C11_Witness ==
  /\ created = "refused"
  /\ local # <<>>
  /\ \E pid \in Pids : events[pid] # <<>> /\ Head(events[pid]).deleted
  /\ \E pid \in Pids : events[pid] # <<>> /\ ~Head(events[pid]).deleted

\* no two non-deleted connections of the user share provider and remote
\* calendar id
UniqueAmongNonDeleted(rows) ==
  \A key \in DOMAIN rows : Len(SelectSeq(rows[key], LAMBDA r : ~r.deleted)) <= 1

IsSelect == request'.seq # request.seq /\ request'.op = "select"

\* C12: after every selection, feed connect and disconnect no two non-deleted
\* connections share (user, provider, remote calendar id), and a selection of
\* a calendar leaves exactly one row for it, connected and not deleted; when
\* the calendar already had a row, no row is added
C12_UniqueAndReactivated ==
  [][/\ UniqueAmongNonDeleted(connections')
     /\ IsSelect =>
          \A c \in request'.ids :
            LET known == connections[<<request'.provider, c>>]
                after == connections'[<<request'.provider, c>>]
            IN /\ Len(after) = 1
               /\ known # <<>> => Len(after) = Len(known)
               /\ after[1].is_connected
               /\ ~after[1].deleted]_vars

\* a disconnected calendar was selected again, next to two connections of one
\* feed url
C12_Witness ==
  /\ request.op = "select"
  /\ request.revived # {}
  /\ Cardinality(FeedKeys(connections)) = 2

\* C13: a pass in which the provider answered a request with an
\* authorization error went on to attempt a token refresh
C13_AuthErrorThenRefresh ==
  \A i \in DOMAIN auth.calls :
    (auth.calls[i].call = "get_events" /\ auth.calls[i].answer = Unauthorized)
      => \E j \in DOMAIN auth.calls : j > i /\ auth.calls[j].call = "refresh"

RunEnds == job.pc = "run" /\ job'.pc = "idle"
RunStarts == job.pc = "idle" /\ job'.pc = "run"

C15_FailedIsInactiveAndNotReselected ==
  [][/\ RunEnds =>
          /\ \A sid \in job.refused \cap job.selected : ~subs'[sid].is_active
          /\ job.renewed \cup job.failed \cup job.skipped = job.selected
     /\ RunStarts => job'.selected \cap job.refused = {}]_vars

\* a later run has started and left out a subscription whose renewal failed
\* earlier, although it expires within 24 hours and its calendar is still
\* connected, while it selected another one
C15_Witness ==
  /\ job.pc = "run"
  /\ job.selected # {}
  /\ \E sid \in job.refused \ job.selected :
       /\ subs[sid].connected
       /\ ~subs[sid].is_active
       /\ subs[sid].expiration_datetime < now + ExpiringSoonHalfDays

\* C16: the step in which a webhook handler takes in a notification runs no
\* sync pass inside the request: it holds no request at a provider call of a
\* pass and writes neither event rows nor the cursor
C16_HandlerRunsNoPassInline ==
  [][notif' # notif => (proc' = proc /\ events' = events /\ conn' = conn)]_vars

\* the boundary case: the daily series, interval 1, no end, 09:00 to 10:00 on
\* day D, no exception dates, a window that starts at D 00:00
Boundary ==
  /\ rec.event.is_recurring
  /\ rec.event.recurrence_rule = RDaily
  /\ rec.event.exception_dates = NoExDates
  /\ rec.range_start = 0

Starts(out) == {out[i].start_time : i \in DOMAIN out}

\* the id of the instance, read the way get_event_by_id reads it, gives the
\* series id and the start of the instance
Reversible(event, inst) ==
  LET p == parse_event_id(inst.id)
  IN /\ p.valid
     /\ p.actual_event_id = event.id
     /\ p.instance_start.ok
     /\ p.instance_start.t = inst.start_time

StoredDates(text) ==
  {text.entries[i].day : i \in {j \in DOMAIN text.entries : text.entries[j].kind = "date"}}

\* C18: no instance of an expansion falls on a date stored as an exception
C18_NoInstanceOnExceptionDate ==
  rec.expansion.done =>
    \A i \in DOMAIN rec.expansion.out :
      date(rec.expansion.out[i].start_time) \notin StoredDates(rec.event.exception_dates)

\* C19: the id of every instance of an expansion, split at its last
\* underscore, gives back the series id and the start of the instance, and
\* two instances with different starts have different ids
C19_CompositeIdReversible ==
  rec.expansion.done =>
    /\ \A i \in DOMAIN rec.expansion.out : Reversible(rec.event, rec.expansion.out[i])
    /\ \A i, j \in DOMAIN rec.expansion.out :
         rec.expansion.out[i].start_time # rec.expansion.out[j].start_time
           => rec.expansion.out[i].id # rec.expansion.out[j].id

\* an expansion with two instances on one date
C19_Witness ==
  /\ rec.expansion.done
  /\ \E i, j \in DOMAIN rec.expansion.out :
       /\ i # j
       /\ date(rec.expansion.out[i].start_time) = date(rec.expansion.out[j].start_time)

\* the series carries a rule that rrulestr rejects
ParseFails ==
  /\ rec.event.is_recurring
  /\ rec.event.recurrence_rule # NoRule
  /\ ~rrulestr(rec.event.recurrence_rule, rec.event.start_time).ok

InWindow(event) ==
  event.start_time <= rec.range_end /\ event.end_time >= rec.range_start

\* C20: for a rule that fails to parse the expansion is empty and nothing is
\* raised, and the listing holds exactly the other event when that one
\* overlaps the window
C20_BadRuleExpandsToNothing ==
  /\ (rec.expansion.done /\ ParseFails) =>
       (~rec.expansion.raised /\ rec.expansion.out = <<>>)
  /\ (rec.listing.done /\ ParseFails) =>
       /\ ~rec.listing.raised
       /\ Len(rec.listing.out) = (IF InWindow(rec.other) THEN 1 ELSE 0)
       /\ \A i \in DOMAIN rec.listing.out : rec.listing.out[i].id = rec.other.id

\* a listing with a series whose rule failed to parse returned the other event
C20_Witness ==
  /\ rec.expansion.done
  /\ rec.listing.done
  /\ ParseFails
  /\ rec.listing.out # <<>>

Intervals(list) == [i \in DOMAIN list |-> <<list[i].start_time, list[i].end_time>>]

\* the boundary case: busy 09:00-10:00 and 09:30-11:00, a query from 08:00
\* with the night hours excluded, answered
MergeCase ==
  /\ free.pc = "slots"
  /\ Intervals(free.blocks) = <<<<540, 600>>, <<570, 660>>>>
  /\ free.start_date = 480
  /\ free.calc.excluded_start = 0

\* C21 as stated: the query over 08:00-12:00 with a 30-minute minimum yields
\* the slot 08:00-09:00 and nothing else
C21_OnlyTheMorningSlot ==
  (MergeCase /\ free.end_date = 720 /\ free.calc.min_slot_minutes = 30)
    => Intervals(free.slots) = <<<<480, 540>>>>

\* C21 (amended): the two busy intervals merge to 09:00-11:00; the query yields
\* 08:00-09:00 and then the residual from 11:00 to the end of the range
\* exactly when the residual is at least the minimum: over 08:00-12:00 with a
\* 30-minute minimum both slots, over 08:00-11:20 the first alone
C21_MergedAndResidualIfLongEnough ==
  (MergeCase /\ free.end_date \in {680, 720})
    => /\ Intervals(merge_busy_blocks(free.blocks)) = <<<<540, 660>>>>
       /\ Intervals(free.slots) =
            <<<<480, 540>>>> \o
            (IF free.end_date - 660 >= free.calc.min_slot_minutes
             THEN <<<<660, free.end_date>>>> ELSE <<>>)

C21_Witness ==
  /\ MergeCase
  /\ free.end_date = 720
  /\ free.calc.min_slot_minutes = 30
  /\ Intervals(free.slots) = <<<<480, 540>>, <<660, 720>>>>

BlockFields == {"user_id", "user_name", "start_time", "end_time", "is_all_day"}
SlotFields == {"start_time", "end_time", "duration_minutes"}

PassOver == fetch.pc = "idle" /\ fetch.result # "none"
LastStatus(call) == call.statuses[Len(call.statuses)]

\* C24: a pass makes one call with the stored cursor (or none) and a second
\* one, without cursor, only after the first reported that the cursor is
\* invalid; an error of any other kind, or an error of the second call, ends
\* the pass as raised; the stored cursor is the one of the start of the pass
\* while the pass runs and after it has raised
C24_AtMostOneFallback ==
  /\ Len(fetch.calls) <= 2
  /\ fetch.calls # <<>> => fetch.calls[1].sent \in {fetch.before, NoTok}
  /\ Len(fetch.calls) = 2 =>
       /\ fetch.calls[1].raised
       /\ fetch.calls[1].error.text \in {GoogleExpired, InvalidDelta}
       /\ LastStatus(fetch.calls[1]) = Gone
       /\ fetch.calls[2].sent = NoTok
  /\ (fetch.calls # <<>> /\ fetch.calls[1].raised
      /\ fetch.calls[1].error.text \notin {GoogleExpired, InvalidDelta}) =>
       Len(fetch.calls) = 1 /\ fetch.result = "raised"
  /\ (Len(fetch.calls) = 2 /\ fetch.calls[2].raised) => fetch.result = "raised"
  /\ (fetch.pc # "idle" \/ fetch.result = "raised") =>
       conn.sync_token = fetch.before

C24_Witness ==
  /\ PassOver
  /\ fetch.result = "raised"
  /\ Len(fetch.calls) = 2
  /\ fetch.before # NoTok
  /\ fetch.calls[1].sent = fetch.before
  /\ Len(fetch.calls[2].statuses) = 2

\* C26: a pass that completed got a success answer to every request of the
\* call that returned the events
C26_ListOnlyFromSuccessfulPages ==
  (PassOver /\ fetch.result = "ok") =>
    \A i \in DOMAIN CurrentCall.statuses : CurrentCall.statuses[i] = Ok

\* C27: when the Microsoft provider answered a request of the pass with 429,
\* the pass is over as raised, the error says to retry after the advertised
\* number of seconds, and the stored cursor is the one of the start
C27_RateLimitEndsPassWithRetryAfter ==
  (/\ provider = "microsoft"
   /\ PassOver
   /\ \E k \in DOMAIN fetch.calls : \E i \in DOMAIN fetch.calls[k].statuses :
        fetch.calls[k].statuses[i] = TooManyRequests) =>
    /\ fetch.result = "raised"
    /\ fetch.error.text = RateLimited
    /\ fetch.error.retry_after # NoRetryAfter
    /\ conn.sync_token = fetch.before

Signals == {"cancelled", "removed"}

\* C28: a pass that was applied and committed leaves, for every event of its
\* batch that carries a cancel or delete signal, the row of that provider id
\* soft-deleted if there was one, and no row if there was none; in
\* incremental and in full passes
C28_CancelSoftDeletesOrNothing ==
  [][(hist'.applied /\ hist'.ok /\ (events' # events \/ hist' # hist)) =>
       \A i \in DOMAIN hist'.batch :
         LET item == hist'.batch[i]
         IN item.kind \in Signals =>
              IF events[item.id] = <<>> THEN events'[item.id] = <<>>
              ELSE /\ Len(events'[item.id]) = 1
                   /\ events'[item.id][1].deleted
                   /\ events'[item.id][1].sync_status = "DELETED"]_vars

C28_Witness ==
  /\ hist.applied /\ hist.ok
  /\ hist.mode = "full"
  /\ Len(hist.batch) = 2
  /\ hist.batch[1].kind \in Signals /\ hist.batch[2].kind \in Signals
  /\ events[hist.batch[1].id] # <<>>
  /\ events[hist.batch[1].id][1].deleted
  /\ events[hist.batch[2].id] = <<>>

\* C25: the rows of a connection are the ones from before its pass as long
\* as that pass has failed, whatever its caller commits afterwards; and the
\* cursor differs from the one at the start of the pass only if the pass did
\* not fail
C25_FailedPassWritesNothing ==
  /\ sess.failed => events = sess.before
  /\ (sess.handler # "none" /\ conn.sync_token # sess.cursor) => ~sess.failed

\* C29: a step that disconnects the connection leaves it soft-deleted, not
\* connected and without a stored sync cursor
C29_DisconnectClearsCursor ==
  [][(~conn.deleted /\ conn'.deleted)
       => (~conn'.is_connected /\ conn'.sync_token = NoTok)]_vars

\* the renewal job has refused and deactivated the subscription of a
\* connection that is still connected
DeactivatedByRenewal(sid) ==
  sid \in job.refused /\ ~subs[sid].is_active /\ subs[sid].connected

\* C30: once the renewal job has deactivated the subscription of a
\* connection, a sync pass of that connection eventually runs
C30_PolledAfterDeactivation ==
  \A sid \in SubIds :
    DeactivatedByRenewal(sid) ~> (passes[sid] = "inactive")

\* the hours of the two days a range may touch
HourMarks == {k * MinutesPerHour : k \in 0 .. (2 * MinutesPerDay) \div MinutesPerHour}

\* the instants from a up to b, b not included, are all outside every busy
\* block, and all outside the excluded hours
NotBusy(a, b) ==
  \A i \in DOMAIN free.blocks :
    ~(free.blocks[i].start_time < b /\ free.blocks[i].end_time > a)
NotExcluded(a, b) ==
  \A h \in HourMarks :
    (h < b /\ h + MinutesPerHour > a) => ~is_excluded_hour(free.calc, h)

\* the instant m is free time of the requested range
FreeAt(m) ==
  /\ free.start_date <= m /\ m < free.end_date
  /\ NotBusy(m, m + 1)
  /\ ~is_excluded_hour(free.calc, m)

\* the instants at which free time can begin or end
Breakpoints ==
  {free.start_date, free.end_date}
  \cup {free.blocks[i].start_time : i \in DOMAIN free.blocks}
  \cup {free.blocks[i].end_time : i \in DOMAIN free.blocks}
  \cup {h \in HourMarks : is_excluded_hour(free.calc, h)
                          # is_excluded_hour(free.calc, h + MinutesPerDay - 1)}

\* the maximal stretches of free time of the requested range
MaximalFreeParts ==
  {p \in Breakpoints \X Breakpoints :
     /\ p[1] < p[2]
     /\ free.start_date <= p[1] /\ p[2] <= free.end_date
     /\ NotBusy(p[1], p[2]) /\ NotExcluded(p[1], p[2])
     /\ ~FreeAt(p[1] - 1) /\ ~FreeAt(p[2])}

\* C31: every slot returned is free of busy blocks and of excluded hours and
\* lasts at least min_slot_minutes, and every maximal stretch of free time of
\* the requested range that lasts that long is one of the slots
C31_SlotsAreTheMaximalFreeParts ==
  free.pc = "slots" =>
    /\ \A i \in DOMAIN free.slots :
         /\ NotBusy(free.slots[i].start_time, free.slots[i].end_time)
         /\ NotExcluded(free.slots[i].start_time, free.slots[i].end_time)
         /\ free.slots[i].end_time - free.slots[i].start_time
              >= free.calc.min_slot_minutes
    /\ \A p \in MaximalFreeParts :
         p[2] - p[1] >= free.calc.min_slot_minutes
           => \E i \in DOMAIN free.slots :
                /\ free.slots[i].start_time = p[1]
                /\ free.slots[i].end_time = p[2]

\* C37: every slot returned lies within the requested range
C37_SlotsWithinTheRange ==
  free.pc = "slots" =>
    \A i \in DOMAIN free.slots :
      /\ free.start_date <= free.slots[i].start_time
      /\ free.slots[i].end_time <= free.end_date

\* the rows of the connection a pass has created, and the ones it has changed
\* from not deleted to soft-deleted
Created(before, after) ==
  {pid \in Pids : Len(after[pid]) > Len(before[pid])}
SoftDeleted(before, after) ==
  {pid \in Pids : /\ before[pid] # <<>> /\ after[pid] # <<>>
                  /\ ~before[pid][1].deleted /\ after[pid][1].deleted}

\* C40: the statistics a successful pass returns count as deleted the rows it
\* has changed from not deleted to soft-deleted, and as new the rows it has
\* created
C40_StatsCountRowChanges ==
  (sess.handler # "none" /\ ~sess.failed) =>
    /\ sess.stats.deleted_events = Cardinality(SoftDeleted(sess.before, events))
    /\ sess.stats.new_events = Cardinality(Created(sess.before, events))

\* encryption_service.decrypt
decrypt_token(cipher) == cipher[1]

\* C39: the feed connections of the user have different feed urls: a second
\* connect of a url has taken the connection the first one made
C39_OneConnectionPerFeedUrl ==
  \A k1, k2 \in FeedKeys(connections) :
    decrypt_token(connections[k1][1].ics_url)
      = decrypt_token(connections[k2][1].ics_url) => k1 = k2

\* C33: a select request that is refused because the session belongs to
\* another user or to the other provider leaves every session in the store
C33_RefusedSelectKeepsSession ==
  [][(selection'.seq # selection.seq
        /\ selection'.outcome \in {"forbidden", "invalid_provider"})
       => oauth_sessions' = oauth_sessions]_vars

\* C34: every create on a writable connection has ended with its event
\* stored, SYNCED or PENDING; none was refused
C34_CreateAlwaysStores ==
  provider \in OAuthProviders => created \in {"none", "synced", "pending"}

\* C38: a poll that finds the content of the poll before it leaves the
\* non-deleted rows as they were and reports no new and no deleted event
C38_SecondPollChangesNothing ==
  feedlog.repeat =>
    /\ NonDeleted(events) = NonDeleted(feedlog.before)
    /\ poll.stats.new_events = 0
    /\ poll.stats.deleted_events = 0

\* the subscription is active although its expiration time has passed
ActiveAfterExpiry(sid) ==
  subs[sid].is_active /\ subs[sid].expiration_datetime < now

C32_ReconnectShowsTheEventsAgain ==
  [][(remote.phase = "reconnected" /\ remote'.phase = "resynced")
       => \A pid \in remote'.live :
            events'[pid] # <<>> /\ ~events'[pid][1].deleted]_vars

\* C35: an event row is soft-deleted exactly when its sync_status is DELETED
C35_DeletedIffStatusDeleted ==
  \A pid \in Pids \cup {NoPid} :
    \A i \in DOMAIN event_rows(events, local)[pid] :
      LET row == event_rows(events, local)[pid][i]
      IN row.deleted <=> row.sync_status = "DELETED"

====
